---- MODULE Spec2Model ----
(***************************************************************************)
(* Verification model of device-os-flash-util.                             *)
(*                                                                         *)
(* The program's subsystems are modelled side by side, each                *)
(* with its own specification over the shared variable list:              *)
(*   SpecFlasher  - Flasher.run / _flashModules / _updateModules           *)
(*   SpecFlasherFair - Flasher.run when every awaited operation settles     *)
(*   SpecApp      - ModuleCache._downloadAssets and App._flashDevices      *)
(*   SpecOcd      - the OpenOcd driver under arbitrary callers             *)
(*   SpecOcdDevice - OpenOcdDevice.open / close over the driver            *)
(*   SpecParse    - ModuleCache._parseModuleBinaries                        *)
(*   SpecCache    - ModuleCache.getReleaseModules and its helpers          *)
(*   SpecStartup  - App.init                                               *)
(*   SpecTargets  - App._getTargetDevices                                  *)
(*   SpecEnumerate - App._listLocalDevices                                 *)
(*   SpecStorage  - Platform.storageForFirmwareModule                        *)
(*   SpecTelnet   - TelnetClient.connect / disconnect                       *)
(*   SpecOlder    - the older releases of ModuleCache._findMissingBinaries  *)
(*   SpecOptions  - TelnetClient._sendOptions and _receiveOption           *)
(*   SpecReceive  - TelnetClient._receiveData and _receiveCommands           *)
(* A specification leaves the variables of the other subsystems at their   *)
(* idle values.                                                            *)
(***************************************************************************)
EXTENDS Integers, Sequences, FiniteSets, TLC

VARIABLES
    \* ---- Flasher (src/lib/index.js) ----
    devKind,        \* class of this._dev: "dfu", "openocd" or "usb"
    platform,       \* name of the device's platform
    inModules,      \* the `modules` argument of run()
    maxRetries,     \* the maxRetries option of run()
    flPc,           \* the await at which run() is suspended
    flashModules,   \* modules that can be flashed directly
    otaModules,     \* modules that can only be flashed OTA
    modules,        \* remaining modules of the running phase
    needReset,
    isOpen,         \* _flashModules: isOpen
    dev,            \* _updateModules: dev !== null
    retriesLeft,    \* this._retriesLeft
    hOpen,          \* the primary device really holds a handle / a daemon
    wroteFlash,     \* history: modules whose writeToFlash() returned
    wroteOta,       \* history: modules whose flashModule() returned
    resetsOk,       \* history: successful reset() calls of the direct phase
    otaAttempted,   \* history: flashModule() has been called
    failures,       \* history: exceptions that reached a catch block
    closeThrew,     \* history: a close() of the primary device has thrown
    flError,        \* what run() threw: "none", "op" or "close"
    \* ---- ModuleCache._downloadAssets and App._flashDevices ----
    appPc,          \* "init", "downloading", "dl_thrown", "resolved",
                    \* "flashing", "returned", "thrown"
    dlQueued,       \* downloads waiting in the queue of pLimit
    dlRunning,      \* downloads in flight
    dlSettled,      \* downloads finished whose slot is not yet released
    dlDone,         \* downloads finished, slot released
    dlPeak,         \* history: most downloads seen in flight at once
    maxJobs,        \* the maxJobs option: a number, or Infinity
    flashers,       \* state of each Flasher job, by position in `flashers`
    error,          \* _flashDevices: `error`, 0 for null, else the device
    failOrder,      \* history: devices whose run() threw, in time order
    \* ---- OpenOcd and OpenOcdDevice (src/lib/openocd.js) ----
    ocd,            \* the driver: its fields and its suspended calls
    calls,          \* history: calls made by the driver's other callers
    adapter,        \* type of the debugger of the device
    target,         \* platform of the target behind the debugger
    targetSet,      \* this._target is set
    idKnown,        \* this.id is set
    opened,         \* open() has returned and close() was not called since
    odPc,           \* the await at which the device's method is suspended
    closeDone,      \* history: how the last close() settled
    devOps,         \* history: methods called on the device
    \* ---- ModuleCache (src/lib/dfu_flasher.js) ----
    pFiles,         \* _parseModuleBinaries: `files`
    pIdx,           \* _parseModuleBinaries: position of the loop in files
    pModules,       \* _parseModuleBinaries: `modules`, in insertion order
    noCache,        \* the noCache option of getReleaseModules()
    draft,          \* the draft option of getReleaseModules()
    cacheExists,    \* the release directory of the cache exists
    cacheFiles,     \* the .bin files under it
    gcPc,           \* the await at which getReleaseModules() is suspended
    relDraft,       \* release.draft
    relFiles,       \* the binaries among the assets that are downloaded
    mods,           \* release.modules
    added,          \* modules pushed by _findMissingBinaries()
    missing,        \* missingModules, as pairs <<platformId, type>>
    olderLeft,      \* older releases not yet probed
    page,           \* _findDraftRelease: `page`
    requests,       \* history: requests sent to the release host
    writes,         \* history: updates of the cache
    result,         \* what getReleaseModules() returned
    lookup,         \* history: the lookups of _downloadRelease(version)
    gcError,        \* the error getReleaseModules() threw
    cold,           \* history: what the call that filled the cache returned
    torn,           \* history: the modules of an update of the cache that threw
    \* ---- App.init (src/lib/app.js) ----
    stArgs,         \* the command line and the environment
    stPc,           \* the await at which init() is suspended
    stDid,          \* history: what init() has done, in order
    stError,        \* the error init() threw
    \* ---- App._getTargetDevices (src/lib/app.js) ----
    tgLocal,        \* localDevs: the platformId of each local device, by id
    tgArgs,         \* devArgs, as _parseDeviceArgs() returns them
    tgUserDevs,     \* what api.getDevices() returns
    tgPc,           \* "start", "cloud", "done" or "failed"
    tg,             \* the locals of _getTargetDevices() across its await
    tgResult,       \* ids of the devices _getTargetDevices() returned
    tgError,        \* the error _getTargetDevices() threw
    tgCloud,        \* history: calls of the registry that were started
    \* ---- App._listLocalDevices (src/lib/app.js) ----
    lsIf,           \* flashIf: "openocd", "dfu" or "usb"
    lsCount,        \* number of devices flashIf.listDevices() returns
    lsMaxRetries,   \* the maxRetries option
    lsMaxJobs,      \* the maxJobs option: a number, or Infinity
    ls,             \* the call: its jobs, `devs`, the open handles, its end
    \* ---- Platform.storageForFirmwareModule (src/lib/platform.js) ----
    fwModules,      \* this._fwModules
    sfType,         \* the argument `type`
    sfIndex,        \* the argument `index`, NoIndex when it is not passed
    sfPc,           \* "start" or "done"
    sfResult,       \* what storageForFirmwareModule() returned
    \* ---- TelnetClient (src/unnamed/part_008) ----
    tnOpts,         \* the options of connect() and the listeners of the user
    tn,             \* the client: its fields, its socket, its suspended calls
    \* ---- _findMissingBinaries: older releases (src/lib/dfu_flasher.js) ----
    olVersion,      \* the argument `version`
    olMissing,      \* missingModules, as pairs <<platformId, type>>
    olPc,           \* the await at which _findMissingBinaries() is suspended
    olSeen,         \* _listOlderReleaseVersions: `versions`, in insertion order
    olPage,         \* _listOlderReleaseVersions: `page`
    olVersions,     \* `versions` of _findMissingBinaries() after the slice
    olIdx,          \* position of the loop in it
    olProbed,       \* history: the versions passed to _downloadRelease()
    olLists,        \* history: listReleases() requests sent
    \* ---- TelnetClient: option negotiation (src/unnamed/part_008) ----
    ng,             \* currentState and desiredState of the four options
    ngOpen,         \* the socket is connected
    ngCmd,          \* history: the last command received
    ngSent,         \* history: the commands written by the last step
    ngLast,         \* history: the peer's last word on each option
    \* ---- TelnetClient: received bytes (src/unnamed/part_008) ----
    rxStream,       \* the bytes the server sends on the connection
    rxSent,         \* how many of them have been delivered in 'data' events
    rxBuf,          \* this._recvBuf
    rxNegotiated,   \* this._optionsNegotiated
    rxApplied,      \* history: the commands passed to _receiveOption()
    rxReports       \* history: the lines given to the matching loop

flVars == <<devKind, platform, inModules, maxRetries, flPc, flashModules,
            otaModules, modules, needReset, isOpen, dev, retriesLeft, hOpen,
            wroteFlash, wroteOta, resetsOk, otaAttempted, failures, flError,
            closeThrew>>

appVars == <<appPc, dlQueued, dlRunning, dlSettled, dlDone, dlPeak, maxJobs,
             flashers, error, failOrder>>

odVars == <<adapter, target, targetSet, idKnown, opened, odPc, closeDone,
            devOps>>

ocdVars == <<ocd, calls, odVars>>

parseVars == <<pFiles, pIdx, pModules>>

cacheVars == <<noCache, draft, cacheExists, cacheFiles, gcPc,
               relDraft, relFiles, mods, added, missing, olderLeft, page,
               requests, writes, result, lookup, gcError, cold, torn>>

startupVars == <<stArgs, stPc, stDid, stError>>

targetVars == <<tgLocal, tgArgs, tgUserDevs, tgPc, tg, tgResult, tgError,
                tgCloud>>

listVars == <<lsIf, lsCount, lsMaxRetries, lsMaxJobs, ls>>

storageVars == <<fwModules, sfType, sfIndex, sfPc, sfResult>>

telnetVars == <<tnOpts, tn>>

olderVars == <<olVersion, olMissing, olPc, olSeen, olPage, olVersions,
               olIdx, olProbed, olLists>>

optionVars == <<ng, ngOpen, ngCmd, ngSent, ngLast>>

receiveVars == <<rxStream, rxSent, rxBuf, rxNegotiated, rxApplied, rxReports>>

vars == <<flVars, appVars, ocdVars, parseVars, cacheVars, startupVars,
    targetVars, listVars, storageVars, telnetVars, olderVars, optionVars,
    receiveVars>>

\* What the actions of one subsystem leave alone.
notFlasher == <<appVars, ocdVars, parseVars, cacheVars, startupVars,
    targetVars, listVars, storageVars, telnetVars, olderVars, optionVars,
    receiveVars>>
notApp == <<flVars, ocdVars, parseVars, cacheVars, startupVars, targetVars,
    listVars, storageVars, telnetVars, olderVars, optionVars, receiveVars>>
notOcd == <<flVars, appVars, parseVars, cacheVars, startupVars, targetVars,
    listVars, storageVars, telnetVars, olderVars, optionVars, receiveVars>>
notParse == <<flVars, appVars, ocdVars, cacheVars, startupVars, targetVars,
    listVars, storageVars, telnetVars, olderVars, optionVars, receiveVars>>
notCache == <<flVars, appVars, ocdVars, parseVars, startupVars, targetVars,
    listVars, storageVars, telnetVars, olderVars, optionVars, receiveVars>>
notStartup == <<flVars, appVars, ocdVars, parseVars, cacheVars, targetVars,
    listVars, storageVars, telnetVars, olderVars, optionVars, receiveVars>>
notTargets == <<flVars, appVars, ocdVars, parseVars, cacheVars, startupVars,
    listVars, storageVars, telnetVars, olderVars, optionVars, receiveVars>>
notEnumerate == <<flVars, appVars, ocdVars, parseVars, cacheVars,
    startupVars, targetVars, storageVars, telnetVars, olderVars, optionVars,
    receiveVars>>
notStorage == <<flVars, appVars, ocdVars, parseVars, cacheVars, startupVars,
    targetVars, listVars, telnetVars, olderVars, optionVars, receiveVars>>
notTelnet == <<flVars, appVars, ocdVars, parseVars, cacheVars, startupVars,
    targetVars, listVars, storageVars, olderVars, optionVars, receiveVars>>
notOlder == <<flVars, appVars, ocdVars, parseVars, cacheVars, startupVars,
    targetVars, listVars, storageVars, telnetVars, optionVars, receiveVars>>
notOptions == <<flVars, appVars, ocdVars, parseVars, cacheVars, startupVars,
    targetVars, listVars, storageVars, telnetVars, olderVars, receiveVars>>
notReceive == <<flVars, appVars, ocdVars, parseVars, cacheVars, startupVars,
    targetVars, listVars, storageVars, telnetVars, olderVars, optionVars>>

(***************************************************************************)
(* Bounds of the model                                                     *)
(***************************************************************************)
MaxRetriesBound == 2
MaxAssets == 8
MaxDevices == 3
MaxCalls == 6
MaxDevOps == 4
MaxFiles == 3
MaxDirFiles == 2
MaxOlder == 1
MaxPages == 2
MaxDevArgs == 2
MaxUserDevs == 2
MaxFwModules == 2
MaxLines == 3
MaxDisconnects == 1
MaxTagPages == 2
MaxStream == 4

(***************************************************************************)
(* Platform catalog                                                        *)
(***************************************************************************)
\* Three platforms, one per MCU family of PLATFORM_COMMONS.
Platforms == {"photon", "boron", "p2"}

\* externalFlash.dfuAltSetting is defined for nrf52840 and rtl872x only.
hasExternalFlash(p) == p \in {"boron", "p2"}

\* openOcd.resetTarget: Gen 2 targets are reset when the debugger attaches.
resetTarget(p) == p = "photon"

\* encryptedModules: the MBR of rtl872x is expected to be encrypted.
encryptedModules(p) ==
    IF p = "p2" THEN {[type |-> "bootloader", index |-> 1]} ELSE {}

(***************************************************************************)
(* Modules handed to the Flasher.  A module is named by its kind; Mod      *)
(* gives the fields the Flasher reads.  `own` is whether platformId is the *)
(* platform of the device.                                                 *)
(***************************************************************************)
ModuleKinds == {"sys1", "sys2x", "mbr", "mbrEnc", "ncp", "foreign"}

Mod(k) ==
    CASE k = "sys1"    -> [own |-> TRUE, type |-> "system_part", index |-> 1,
                           storage |-> "internal_flash", encrypted |-> FALSE]
      [] k = "sys2x"   -> [own |-> TRUE, type |-> "system_part", index |-> 2,
                           storage |-> "external_flash", encrypted |-> FALSE]
      [] k = "mbr"     -> [own |-> TRUE, type |-> "bootloader", index |-> 1,
                           storage |-> "internal_flash", encrypted |-> FALSE]
      [] k = "mbrEnc"  -> [own |-> TRUE, type |-> "bootloader", index |-> 1,
                           storage |-> "internal_flash", encrypted |-> TRUE]
      [] k = "ncp"     -> [own |-> TRUE, type |-> "ncp_firmware", index |-> 1,
                           storage |-> "external_mcu", encrypted |-> FALSE]
      [] k = "foreign" -> [own |-> FALSE, type |-> "system_part", index |-> 1,
                           storage |-> "internal_flash", encrypted |-> FALSE]

ModKey(k) == <<Mod(k).own, Mod(k).type, Mod(k).index>>

\* Module lists a resolver can return for a device of platform p: no two
\* modules share a key, and external flash only where the platform has it.
ModuleLists(p) ==
    LET Kinds == {k \in ModuleKinds :
                    Mod(k).storage = "external_flash" => hasExternalFlash(p)}
        n == Cardinality({ModKey(k) : k \in Kinds})
    IN  {s \in UNION {[1..i -> Kinds] : i \in 0..n} :
            \A i, j \in DOMAIN s : i # j => ModKey(s[i]) # ModKey(s[j])}

SeqRange(s) == {s[i] : i \in DOMAIN s}

(***************************************************************************)
(* Device classes                                                          *)
(***************************************************************************)
\* DfuDevice.canWriteToFlash / OpenOcdDevice.canWriteToFlash /
\* UsbDevice.canWriteToFlash
canWriteToFlash(kind, p, storage) ==
    CASE kind = "dfu"     -> \/ storage = "internal_flash"
                             \/ storage = "external_flash" /\ hasExternalFlash(p)
      [] kind = "openocd" -> storage = "internal_flash"
      [] OTHER            -> FALSE

\* DfuDevice.canFlashModule / OpenOcdDevice.canFlashModule /
\* UsbDevice.canFlashModule
canFlashModule(kind, p, k) ==
    CASE kind = "dfu"     -> /\ Mod(k).type # "bootloader"
                             /\ canWriteToFlash(kind, p, Mod(k).storage)
      [] kind = "openocd" -> canWriteToFlash(kind, p, Mod(k).storage)
      [] OTHER            -> TRUE

\* OpenOcdDevice.close() awaits command('reset run') before it stops the
\* daemon, so it throws when that command fails.  DfuDevice.close() only
\* releases the USB handle.
closeCanThrow(kind, p) == kind = "openocd" /\ resetTarget(p)

(***************************************************************************)
(* Flasher.run, Flasher._flashModules, Flasher._updateModules              *)
(*                                                                         *)
(* flPc names the await at which the async function is suspended; an       *)
(* action is that awaited call with one of its outcomes, followed by the   *)
(* synchronous code up to the next await.                                  *)
(***************************************************************************)

\* run(): modules.filter(m => m.platformId === this._dev.platformId)
FilterPlatform(ms) == SelectSeq(ms, LAMBDA k : Mod(k).own)

\* run(): the partition into flashModules and otaModules.
IsDirectAlways(k) == TRUE
IsDirect(k) ==
    /\ canFlashModule(devKind, platform, k)
    /\ canWriteToFlash(devKind, platform, Mod(k).storage)

\* _flashModules: the encrypted-module policy.
MustSkip(k) ==
    /\ [type |-> Mod(k).type, index |-> Mod(k).index] \in encryptedModules(platform)
    /\ ~Mod(k).encrypted

\* modules.shift() after a successful write.
ShiftKeepAll(ms) == ms
Shift(ms) == Tail(ms)

\* The catch blocks: retry while this._retriesLeft is not zero.
CanRetry(left) == left # 0

\* Top of the for (;;) loop of _flashModules up to its first await.
FmLoopTop(ms, nr, open) ==
    IF ms = <<>> /\ ~nr THEN "fm_exit"
    ELSE IF ~open THEN "fm_open"
    ELSE IF ms # <<>> THEN "fm_module"
    ELSE "fm_reset"

\* Top of the for (;;) loop of _updateModules up to its first await.
UmLoopTop(ms, nr, d) ==
    IF ms = <<>> /\ ~nr THEN "um_exit"
    ELSE IF ~d THEN "um_open"
    ELSE IF ms # <<>> THEN "um_module"
    ELSE "um_reset"

\* --this._retriesLeft on a JavaScript number: below the least safe integer
\* n - 1 is n again. LeastNumber stands for that number.
LeastNumber == 0 - (MaxRetriesBound + 2)
Decrement(n) == IF n = LeastNumber THEN n ELSE n - 1

\* The failures of a run are counted up to MaxFailures, which is more than
\* any budget of retries allows.
MaxFailures == MaxRetriesBound + 2

\* App._parseMaxRetriesArg(args): args.retries as minimist left it, absent
\* or a number; a number that is no integer throws before any Flasher runs.
DEFAULT_MAX_RETRIES == 2
NoRetriesArg == [given |-> FALSE]
RetriesArgs == {NoRetriesArg} \cup [given : {TRUE}, n : (0 - 1)..MaxRetriesBound]
parseMaxRetriesArg(r) == IF ~r.given THEN DEFAULT_MAX_RETRIES ELSE r.n

flHist == <<wroteFlash, wroteOta, resetsOk, otaAttempted, failures>>
flInput == <<devKind, platform, inModules, maxRetries>>
flParts == <<flashModules, otaModules>>

FlasherInit ==
    /\ devKind \in {"dfu", "openocd", "usb"}
    /\ platform \in Platforms
    /\ inModules \in ModuleLists(platform)
    /\ maxRetries \in 0..MaxRetriesBound
    /\ flPc = "start"
    /\ flashModules = <<>> /\ otaModules = <<>> /\ modules = <<>>
    /\ needReset = FALSE /\ isOpen = FALSE /\ dev = FALSE
    /\ retriesLeft = 0
    /\ hOpen = FALSE
    /\ wroteFlash = <<>> /\ wroteOta = <<>>
    /\ resetsOk = 0 /\ otaAttempted = FALSE /\ failures = 0
    /\ flError = "none"
    /\ closeThrew = FALSE

\* A Flasher as App._flashDevices runs it, with the maxRetries that
\* _parseMaxRetriesArg made of the command line.
FlasherArgsInit ==
    /\ devKind \in {"dfu", "openocd", "usb"}
    /\ platform \in Platforms
    /\ inModules \in ModuleLists(platform)
    /\ maxRetries \in {parseMaxRetriesArg(r) : r \in RetriesArgs}
    /\ flPc = "start"
    /\ flashModules = <<>> /\ otaModules = <<>> /\ modules = <<>>
    /\ needReset = FALSE /\ isOpen = FALSE /\ dev = FALSE
    /\ retriesLeft = 0
    /\ hOpen = FALSE
    /\ wroteFlash = <<>> /\ wroteOta = <<>>
    /\ resetsOk = 0 /\ otaAttempted = FALSE /\ failures = 0
    /\ flError = "none"
    /\ closeThrew = FALSE

\* run() up to the first await of _flashModules or _updateModules.
Run ==
    /\ flPc = "start"
    /\ LET ms == FilterPlatform(inModules)
           fm == SelectSeq(ms, IsDirect)
           om == SelectSeq(ms, LAMBDA k : ~IsDirect(k))
       IN  IF ms = <<>>
           THEN /\ flPc' = "done"
                /\ UNCHANGED <<flParts, modules, retriesLeft>>
           ELSE /\ flashModules' = fm
                /\ otaModules' = om
                /\ retriesLeft' = maxRetries
                /\ modules' = IF fm # <<>> THEN fm ELSE om
                /\ flPc' = IF fm # <<>> THEN FmLoopTop(fm, FALSE, FALSE)
                                        ELSE UmLoopTop(om, FALSE, FALSE)
    /\ UNCHANGED <<flInput, needReset, isOpen, dev, hOpen, flHist, flError>>
    /\ UNCHANGED notFlasher
    /\ UNCHANGED closeThrew

\* if (isOpen) { await this._dev.close(); }: what is left of the handle.
ClosedNever(open, h) == h
Closed(open, h) == IF open THEN FALSE ELSE h

\* An awaited call threw: control goes to the catch block of the loop.
Caught(pc) ==
    /\ flPc' = pc
    /\ failures' = IF failures < MaxFailures THEN failures + 1 ELSE failures

\* await this._dev.open()
FmOpen ==
    /\ flPc = "fm_open"
    /\ \/ /\ ~hOpen                       \* opened
          /\ hOpen' = TRUE
          /\ isOpen' = TRUE
          /\ flPc' = IF modules # <<>> THEN "fm_prepare" ELSE "fm_reset"
          /\ UNCHANGED <<failures, closeThrew>>
       \/ /\ ~hOpen                       \* open() failed and cleaned up
          /\ Caught("fm_catch")
          /\ UNCHANGED <<hOpen, isOpen, closeThrew>>
       \/ /\ ~hOpen                       \* open() failed, its close() threw
          /\ closeCanThrow(devKind, platform)
          /\ hOpen' = TRUE
          /\ closeThrew' = TRUE
          /\ Caught("fm_catch")
          /\ UNCHANGED isOpen
       \/ /\ hOpen                        \* 'Device is already open'
          /\ Caught("fm_catch")
          /\ UNCHANGED <<hOpen, isOpen, closeThrew>>
    /\ UNCHANGED <<flInput, flParts, modules, needReset, dev, retriesLeft,
                   wroteFlash, wroteOta, resetsOk, otaAttempted, flError>>
    /\ UNCHANGED notFlasher

\* await this._dev.prepareToFlash()
FmPrepare ==
    /\ flPc = "fm_prepare"
    /\ \/ /\ flPc' = "fm_module"
          /\ UNCHANGED <<hOpen, failures>>
       \/ /\ hOpen' \in BOOLEAN
          /\ Caught("fm_catch")
    /\ UNCHANGED <<flInput, flParts, modules, needReset, isOpen, dev,
                   retriesLeft, wroteFlash, wroteOta, resetsOk, otaAttempted,
                   flError>>
    /\ UNCHANGED notFlasher
    /\ UNCHANGED closeThrew

\* The head of the list is required to be encrypted and is not: it is
\* dropped from the list and the loop continues.
FmSkip ==
    /\ flPc = "fm_module"
    /\ MustSkip(Head(modules))
    /\ modules' = Tail(modules)
    /\ flPc' = FmLoopTop(Tail(modules), needReset, isOpen)
    /\ UNCHANGED <<flInput, flParts, needReset, isOpen, dev, retriesLeft,
                   hOpen, flHist, flError>>
    /\ UNCHANGED notFlasher
    /\ UNCHANGED closeThrew

\* await this._dev.writeToFlash(file, m.storage, m.address)
FmWrite ==
    /\ flPc = "fm_module"
    /\ ~MustSkip(Head(modules))
    /\ \/ /\ wroteFlash' = Append(wroteFlash, Head(modules))
          /\ modules' = Shift(modules)
          /\ needReset' = IF modules' = <<>> THEN TRUE ELSE needReset
          /\ flPc' = IF needReset' THEN "fm_reset"
                                   ELSE FmLoopTop(modules', needReset', isOpen)
          /\ UNCHANGED <<hOpen, failures>>
       \/ /\ hOpen' \in BOOLEAN
          /\ Caught("fm_catch")
          /\ UNCHANGED <<wroteFlash, modules, needReset>>
    /\ UNCHANGED <<flInput, flParts, isOpen, dev, retriesLeft, wroteOta,
                   resetsOk, otaAttempted, flError>>
    /\ UNCHANGED notFlasher
    /\ UNCHANGED closeThrew

\* await this._dev.reset()
FmReset ==
    /\ flPc = "fm_reset"
    /\ \/ /\ needReset' = FALSE
          /\ resetsOk' = resetsOk + 1
          /\ flPc' = FmLoopTop(modules, FALSE, isOpen)
          /\ UNCHANGED <<hOpen, failures>>
       \/ /\ hOpen' \in BOOLEAN
          /\ Caught("fm_catch")
          /\ UNCHANGED <<needReset, resetsOk>>
    /\ UNCHANGED <<flInput, flParts, modules, isOpen, dev, retriesLeft,
                   wroteFlash, wroteOta, otaAttempted, flError>>
    /\ UNCHANGED notFlasher
    /\ UNCHANGED closeThrew

\* The catch block of _flashModules.
FmCatch ==
    /\ flPc = "fm_catch"
    /\ \/ /\ hOpen' = Closed(isOpen, hOpen)               \* close() returned
          /\ isOpen' = FALSE
          /\ IF CanRetry(retriesLeft)
             THEN /\ retriesLeft' = Decrement(retriesLeft)
                  /\ flPc' = FmLoopTop(modules, needReset, FALSE)
                  /\ UNCHANGED flError
             ELSE /\ flPc' = "failed"
                  /\ flError' = "op"
                  /\ UNCHANGED retriesLeft
          /\ UNCHANGED closeThrew
       \/ /\ isOpen /\ hOpen                                 \* close() threw
          /\ closeCanThrow(devKind, platform)
          /\ flPc' = "failed"
          /\ flError' = "close"
          /\ closeThrew' = TRUE
          /\ UNCHANGED <<hOpen, isOpen, retriesLeft>>
    /\ UNCHANGED <<flInput, flParts, modules, needReset, dev, flHist>>
    /\ UNCHANGED notFlasher

\* After the loop of _flashModules: close the device; back in run(), go on
\* with _updateModules when there are OTA modules.
FmExit ==
    /\ flPc = "fm_exit"
    /\ \/ /\ hOpen' = Closed(isOpen, hOpen)               \* close() returned
          /\ isOpen' = FALSE
          /\ IF otaModules # <<>>
             THEN /\ modules' = otaModules
                  /\ flPc' = UmLoopTop(otaModules, FALSE, FALSE)
             ELSE /\ flPc' = "done"
                  /\ UNCHANGED modules
          /\ UNCHANGED <<flError, closeThrew>>
       \/ /\ isOpen /\ hOpen
          /\ closeCanThrow(devKind, platform)
          /\ flPc' = "failed"
          /\ flError' = "close"
          /\ closeThrew' = TRUE
          /\ UNCHANGED <<hOpen, isOpen, modules>>
    /\ UNCHANGED <<flInput, flParts, needReset, dev, retriesLeft, flHist>>
    /\ UNCHANGED notFlasher

\* await delay(REOPEN_DELAY); dev = await this._usb.openDeviceById(...)
UmOpen ==
    /\ flPc = "um_open"
    /\ \/ /\ dev' = TRUE
          /\ flPc' = IF modules # <<>> THEN "um_prepare" ELSE "um_reset"
          /\ UNCHANGED failures
       \/ /\ Caught("um_catch")
          /\ UNCHANGED dev
    /\ UNCHANGED <<flInput, flParts, modules, needReset, isOpen, retriesLeft,
                   hOpen, wroteFlash, wroteOta, resetsOk, otaAttempted, flError>>
    /\ UNCHANGED notFlasher
    /\ UNCHANGED closeThrew

\* await dev.prepareToFlash(): UsbDevice.prepareToFlash() only warns when
\* entering listening mode fails.
UmPrepare ==
    /\ flPc = "um_prepare"
    /\ flPc' = "um_module"
    /\ UNCHANGED <<flInput, flParts, modules, needReset, isOpen, dev,
                   retriesLeft, hOpen, flHist, flError>>
    /\ UNCHANGED notFlasher
    /\ UNCHANGED closeThrew

\* const r = await dev.flashModule(m): UsbDevice.flashModule() returns
\* { resetPending: true } whenever it returns.
UmModule ==
    /\ flPc = "um_module"
    /\ otaAttempted' = TRUE
    /\ \/ /\ wroteOta' = Append(wroteOta, Head(modules))
          /\ flPc' = "um_close"
          /\ UNCHANGED failures
       \/ /\ Caught("um_catch")
          /\ UNCHANGED wroteOta
    /\ UNCHANGED <<flInput, flParts, modules, needReset, isOpen, dev,
                   retriesLeft, hOpen, wroteFlash, resetsOk, flError>>
    /\ UNCHANGED notFlasher
    /\ UNCHANGED closeThrew

\* UsbDevice.flashModule(): return { resetPending: true }
resetPendingNever == FALSE
resetPending == TRUE

\* r.resetPending: await dev.close(); dev = null; then modules.shift().
\* needReset is set only if dev is still there, so "um_reset" (the final
\* await dev.reset()) is never reached with a UsbDevice.
UmClose ==
    /\ flPc = "um_close"
    /\ dev' = IF resetPending THEN FALSE ELSE dev
    /\ modules' = Shift(modules)
    /\ needReset' = IF modules' = <<>> /\ dev' THEN TRUE ELSE needReset
    /\ flPc' = IF needReset' THEN "um_reset"
                             ELSE UmLoopTop(modules', needReset', dev')
    /\ UNCHANGED <<flInput, flParts, isOpen, retriesLeft, hOpen, flHist,
                   flError>>
    /\ UNCHANGED notFlasher
    /\ UNCHANGED closeThrew

\* The catch block of _updateModules.
UmCatch ==
    /\ flPc = "um_catch"
    /\ dev' = FALSE
    /\ IF CanRetry(retriesLeft)
       THEN /\ retriesLeft' = Decrement(retriesLeft)
            /\ flPc' = UmLoopTop(modules, needReset, FALSE)
            /\ UNCHANGED flError
       ELSE /\ flPc' = "failed"
            /\ flError' = "op"
            /\ UNCHANGED retriesLeft
    /\ UNCHANGED <<flInput, flParts, modules, needReset, isOpen, hOpen,
                   flHist>>
    /\ UNCHANGED notFlasher
    /\ UNCHANGED closeThrew

\* After the loop of _updateModules: close dev if it is there; run() returns.
UmExit ==
    /\ flPc = "um_exit"
    /\ dev' = FALSE
    /\ flPc' = "done"
    /\ UNCHANGED <<flInput, flParts, modules, needReset, isOpen, retriesLeft,
                   hOpen, flHist, flError>>
    /\ UNCHANGED notFlasher
    /\ UNCHANGED closeThrew

FlasherNext ==
    \/ Run
    \/ FmOpen \/ FmPrepare \/ FmSkip \/ FmWrite \/ FmReset \/ FmCatch \/ FmExit
    \/ UmOpen \/ UmPrepare \/ UmModule \/ UmClose \/ UmCatch \/ UmExit

FlasherIdle ==
    /\ devKind = "usb" /\ platform = "photon" /\ inModules = <<>>
    /\ maxRetries = 0 /\ flPc = "idle"
    /\ flashModules = <<>> /\ otaModules = <<>> /\ modules = <<>>
    /\ needReset = FALSE /\ isOpen = FALSE /\ dev = FALSE
    /\ retriesLeft = 0 /\ hOpen = FALSE
    /\ wroteFlash = <<>> /\ wroteOta = <<>>
    /\ resetsOk = 0 /\ otaAttempted = FALSE /\ failures = 0
    /\ flError = "none"
    /\ closeThrew = FALSE


(***************************************************************************)
(* p-limit as used by _downloadAssets and _flashDevices: limit(fn) runs fn *)
(* at once while fewer than `concurrency` jobs hold a slot, else queues    *)
(* it; a job that settles releases its slot and the head of the queue is   *)
(* started in its place.                                                   *)
(***************************************************************************)
MAX_CONCURRENT_DOWNLOADS == 6

\* DEFAULT_MAX_JOBS = Infinity, written as a number that is no job count.
Infinity == -1

\* pLimit: activeCount < concurrency
NoLimit(active, concurrency) == TRUE
HasSlot(active, concurrency) == concurrency = Infinity \/ active < concurrency

Min(a, b) == IF a <= b THEN a ELSE b
Max(a, b) == IF a >= b THEN a ELSE b

\* Jobs started at once by assets.map(a => limit(...)) for n jobs: the
\* largest k <= n such that each of the first k jobs found a free slot.
StartedAtOnce(n, concurrency) ==
    CHOOSE k \in 0..n :
        /\ \A i \in 0..(k - 1) : HasSlot(i, concurrency)
        /\ k < n => ~HasSlot(k, concurrency)

AppInit ==
    /\ appPc = "init"
    /\ dlQueued = 0 /\ dlRunning = 0 /\ dlSettled = 0 /\ dlDone = 0
    /\ dlPeak = 0
    /\ maxJobs = Infinity
    /\ flashers = <<>>
    /\ error = 0
    /\ failOrder = <<>>

fleetVars == <<maxJobs, flashers, error, failOrder>>
dlVars == <<dlQueued, dlRunning, dlSettled, dlDone, dlPeak>>

\* _downloadAssets(assets, dir): every asset is handed to limit().
DownloadAssets ==
    /\ appPc = "init"
    /\ \E n \in 1..MaxAssets :
         LET k == StartedAtOnce(n, MAX_CONCURRENT_DOWNLOADS)
         IN  /\ dlRunning' = k
             /\ dlQueued' = n - k
             /\ dlPeak' = k
    /\ appPc' = "downloading"
    /\ UNCHANGED <<dlSettled, dlDone, fleetVars>>
    /\ UNCHANGED notApp

\* download(a.url, dir, opts) settles.  A rejection rejects Promise.all at
\* once, and getReleaseModules() throws with it; the other downloads go on.
DownloadSettles ==
    /\ appPc \in {"downloading", "dl_thrown"}
    /\ dlRunning > 0
    /\ dlRunning' = dlRunning - 1
    /\ dlSettled' = dlSettled + 1
    /\ \/ /\ appPc' = IF dlQueued = 0 /\ dlRunning = 1 /\ appPc = "downloading"
                      THEN "resolved" ELSE appPc
       \/ /\ appPc' = "dl_thrown"
    /\ UNCHANGED <<dlQueued, dlDone, dlPeak, fleetVars>>
    /\ UNCHANGED notApp

\* pLimit's next(): the slot is released and the head of the queue runs.
DownloadNext ==
    /\ dlSettled > 0
    /\ dlSettled' = dlSettled - 1
    /\ dlDone' = dlDone + 1
    /\ IF dlQueued > 0
       THEN /\ dlQueued' = dlQueued - 1
            /\ dlRunning' = dlRunning + 1
            /\ dlPeak' = Max(dlPeak, dlRunning + 1)
       ELSE UNCHANGED <<dlQueued, dlRunning, dlPeak>>
    /\ UNCHANGED <<appPc, fleetVars>>
    /\ UNCHANGED notApp

\* flashers.map(f => limit(async () => { ... })): one job per device.
ActiveJobs(fs) == {d \in DOMAIN fs : fs[d] \in {"running", "ok*", "failed*"}}
RunningJobs(fs) == {d \in DOMAIN fs : fs[d] = "running"}
QueuedJobs(fs) == {d \in DOMAIN fs : fs[d] = "queued"}
SettledJobs(fs) == {d \in DOMAIN fs : fs[d] \in {"ok*", "failed*", "ok", "failed"}}
FailedJobs(fs) == {d \in DOMAIN fs : fs[d] \in {"failed*", "failed"}}

FlashDevices ==
    /\ appPc = "resolved"
    /\ \E n \in 1..MaxDevices, j \in (1..MaxDevices) \cup {Infinity} :
         /\ maxJobs' = j
         /\ flashers' = [d \in 1..n |->
                           IF d <= StartedAtOnce(n, j) THEN "running"
                                                       ELSE "queued"]
    /\ appPc' = "flashing"
    /\ UNCHANGED <<dlVars, error, failOrder>>
    /\ UNCHANGED notApp

\* if (!error) { error = err; }
CaptureLast(cur, d) == d
CaptureError(cur, d) == IF cur = 0 THEN d ELSE cur

\* await Promise.all(promises); if (error) { throw error; }
AfterAll(fs, err) ==
    IF SettledJobs(fs) = DOMAIN fs
    THEN (IF err # 0 THEN "thrown" ELSE "returned")
    ELSE "flashing"

\* await f.run(modules, { maxRetries }) returns.
FlasherReturns(d) ==
    /\ appPc = "flashing"
    /\ flashers[d] = "running"
    /\ flashers' = [flashers EXCEPT ![d] = "ok*"]
    /\ appPc' = AfterAll(flashers', error)
    /\ UNCHANGED <<dlVars, maxJobs, error, failOrder>>
    /\ UNCHANGED notApp

\* await f.run(modules, { maxRetries }) throws: the catch block.
FlasherThrows(d) ==
    /\ appPc = "flashing"
    /\ flashers[d] = "running"
    /\ flashers' = [flashers EXCEPT ![d] = "failed*"]
    /\ error' = CaptureError(error, d)
    /\ failOrder' = Append(failOrder, d)
    /\ appPc' = AfterAll(flashers', error')
    /\ UNCHANGED <<dlVars, maxJobs>>
    /\ UNCHANGED notApp

\* pLimit's next() after job d: its slot is released and the head of the
\* queue is started.
FlasherNextJob(d) ==
    /\ flashers[d] \in {"ok*", "failed*"}
    /\ LET done == [flashers EXCEPT ![d] = IF @ = "ok*" THEN "ok" ELSE "failed"]
           q == QueuedJobs(flashers)
       IN  flashers' =
             IF q # {}
             THEN [done EXCEPT ![CHOOSE x \in q : \A y \in q : x <= y] = "running"]
             ELSE done
    /\ UNCHANGED <<appPc, dlVars, maxJobs, error, failOrder>>
    /\ UNCHANGED notApp

AppNext ==
    \/ DownloadAssets
    \/ DownloadSettles
    \/ DownloadNext
    \/ FlashDevices
    \/ \E d \in DOMAIN flashers : FlasherReturns(d)
    \/ \E d \in DOMAIN flashers : FlasherThrows(d)
    \/ \E d \in DOMAIN flashers : FlasherNextJob(d)

AppIdle ==
    /\ appPc = "idle"
    /\ dlQueued = 0 /\ dlRunning = 0 /\ dlSettled = 0 /\ dlDone = 0
    /\ dlPeak = 0
    /\ maxJobs = Infinity
    /\ flashers = <<>>
    /\ error = 0
    /\ failOrder = <<>>

(***************************************************************************)
(* The OpenOCD daemon driver (class OpenOcd).  The driver's fields and the *)
(* positions of its suspended start() and stop() calls are the fields of   *)
(* the record `ocd`; each operator below maps the record before a piece of *)
(* synchronous code to the record after it.                                *)
(*   state, procRunning, telnetConnected, cmdRunning: the fields _state,   *)
(*     _procRunning, _telnetConnected, _cmdRunning                         *)
(*   procAlive: the child process spawned by _startProcess has not exited  *)
(*   procKilled: proc.kill() was called on it                              *)
(*   orphan: an earlier child was still alive when a new one was spawned   *)
(*   spawnError: `error` of _startProcess is set                           *)
(*   telnetUp: the socket of the telnet client is open                     *)
(*   startPc: where start() is suspended: "proc" (the startup timer),      *)
(*     "telnet" (connect), "catch_stop" (stop() of its catch block), or    *)
(*     how it settled: "ok", "failed"; "none" when no call is pending      *)
(*   stopPc: where the stop() that does the work is suspended: "shutdown", *)
(*     "end", "exitwait", "disc_end", "disc_wait"                          *)
(*   stopper: who called that stop(); stopWait: the callers of stop() that *)
(*     wait for 'stopped'; stopRet: the callers whose stop() has returned  *)
(*   sawProcStopped, sawTelnetDisc: '_processStopped', resp.               *)
(*     '_telnetDisconnected' was emitted since stop() began to listen      *)
(*   cmds: the callers whose command() awaits _telnet.exec(); dead: those  *)
(*     of them whose connection has been closed since                      *)
(*   stopInStart: history, a caller's stop() was made while the start()    *)
(*     that spawned the current child had not settled                      *)
(***************************************************************************)
OcdStopped ==
    [state |-> "stopped", procAlive |-> FALSE, procKilled |-> FALSE,
     orphan |-> FALSE, procRunning |-> FALSE, spawnError |-> FALSE,
     telnetUp |-> FALSE, telnetConnected |-> FALSE, cmdRunning |-> FALSE,
     startPc |-> "none", stopPc |-> "none", stopper |-> "none",
     stopWait |-> {}, stopRet |-> {},
     sawProcStopped |-> FALSE, sawTelnetDisc |-> FALSE,
     cmds |-> {}, dead |-> {}, stopInStart |-> FALSE]

\* _setState(STOPPED) at the end of stop(): 'stopped' is emitted, the stop()
\* that did the work returns and so does every stop() that waited for it.
\* Nobody awaits a stop() made by _error().
SetStopped(d) ==
    [d EXCEPT !.state = "stopped", !.stopPc = "none", !.stopper = "none",
              !.stopWait = {},
              !.stopRet = @ \cup ((d.stopWait \cup {d.stopper}) \ {"err"})]

\* _disconnectTelnet() up to its first await, and the rest of stop() when
\* there is nothing to disconnect.
DisconnectTelnet(d) ==
    IF d.telnetConnected
    THEN [d EXCEPT !.sawTelnetDisc = FALSE, !.stopPc = "disc_end"]
    ELSE SetStopped([d EXCEPT !.cmdRunning = FALSE])

\* if (kill) { this._proc.kill(); } await stopped;
\* this._proc is assigned by the startup timer: until it fires, the field
\* still holds the child of the start() before, and the signal goes there.
Kill(d) ==
    IF d.startPc = "proc"
    THEN [d EXCEPT !.stopPc = "exitwait"]
    ELSE [d EXCEPT !.procKilled = d.procAlive, !.stopPc = "exitwait"]

StopProcessKillsAlways(d) ==
    IF d.procRunning
    THEN Kill([d EXCEPT !.sawProcStopped = FALSE])
    ELSE DisconnectTelnet(d)

\* _stopProcess() up to its first await.
StopProcess(d) ==
    IF d.procRunning
    THEN LET d1 == [d EXCEPT !.sawProcStopped = FALSE]
         IN  IF d.telnetConnected /\ ~d.cmdRunning
             THEN [d1 EXCEPT !.stopPc = "shutdown"]
             ELSE Kill(d1)
    ELSE DisconnectTelnet(d)

\* stop() called by p, up to its first await.
Stop(d, p) ==
    CASE d.state = "stopped" ->
           [d EXCEPT !.stopRet = @ \cup ({p} \ {"err"})]
      [] d.state = "stopping" ->
           [d EXCEPT !.stopWait = @ \cup ({p} \ {"err"})]
      [] OTHER ->
           StopProcess([d EXCEPT !.state = "stopping", !.stopper = p])

\* _error(err)
Error(d) == IF d.state # "stopped" THEN Stop(d, "err") ELSE d

\* start() past its guard, up to the await of the startup timer.
Start(d) ==
    [d EXCEPT !.state = "starting", !.startPc = "proc",
              !.orphan = @ \/ d.procAlive,
              !.procAlive = TRUE, !.procKilled = FALSE,
              !.spawnError = FALSE, !.stopInStart = FALSE]

\* The catch block of start(): await this.stop(); throw err;
StartCatch(d) ==
    LET d1 == Stop(d, "start")
    IN  IF "start" \in d1.stopRet
        THEN [d1 EXCEPT !.stopRet = @ \ {"start"}, !.startPc = "failed"]
        ELSE [d1 EXCEPT !.startPc = "catch_stop"]

\* The two guards of command().
CommandAccepted(d) == d.state = "running" /\ ~d.cmdRunning

\* command() by caller c past its guards, up to the await of exec().
Command(d, c) == [d EXCEPT !.cmdRunning = TRUE, !.cmds = @ \cup {c}]

\* The finally block of command().
CommandFinally(d, c) ==
    [d EXCEPT !.cmdRunning = FALSE, !.cmds = @ \ {c}, !.dead = @ \ {c}]

\* exec() of caller c can still get a response.
CanRespond(d, c) == c \in d.cmds /\ c \notin d.dead /\ d.procAlive

(***************************************************************************)
(* Steps of the driver that no caller takes: timers, events, and the       *)
(* continuations of a suspended start() or stop().                         *)
(***************************************************************************)
\* How the child process can exit.
ExitKinds(d) == IF d.procKilled THEN {"signal"} ELSE {"code", "clean"}

\* proc.once('exit'): the handler of the child's exit.
ProcExited(d, kind) ==
    LET err == kind # "clean" \/ d.state # "stopping"
        d1 == [d EXCEPT !.procAlive = FALSE, !.procKilled = FALSE,
                        !.spawnError = @ \/ err,
                        !.procRunning = FALSE, !.sawProcStopped = TRUE]
    IN  IF err THEN Error(d1) ELSE d1

\* proc.once('exit') of an earlier child: its handler closes over its own
\* `proc` and `error`, and writes the driver's _procRunning and emits
\* '_processStopped' on the driver like the handler of the current child.
OrphanExited(d, kind) ==
    LET err == kind # "clean" \/ d.state # "stopping"
        d1 == [d EXCEPT !.orphan = FALSE, !.procRunning = FALSE,
                        !.sawProcStopped = TRUE]
    IN  IF err THEN Error(d1) ELSE d1

\* telnet.once('close'): the handler of the connection's end.  An exec()
\* that was waiting on this connection can only time out from now on.
TelnetClosed(d) ==
    LET d1 == [d EXCEPT !.telnetUp = FALSE, !.telnetConnected = FALSE,
                        !.sawTelnetDisc = TRUE, !.dead = d.cmds]
    IN  IF d.state # "stopping" THEN Error(d1) ELSE d1

\* The 2000 ms timer of _startProcess(), and start() up to its next await.
TimerFired(d) ==
    IF ~d.spawnError
    THEN [d EXCEPT !.procRunning = TRUE, !.startPc = "telnet"]
    ELSE StartCatch(d)

\* telnet.connect() resolved, and start() to its end.
Connected(d) ==
    LET d1 == [d EXCEPT !.telnetUp = TRUE, !.telnetConnected = TRUE]
    IN  IF d.state = "stopping"
        THEN StartCatch(d1)
        ELSE [d1 EXCEPT !.state = "running", !.startPc = "ok"]

(***************************************************************************)
(* OpenOcdDevice: open(), close() and the methods that send one command.   *)
(* odPc names the await at which the running method is suspended, "idle"   *)
(* when none is running.  The operators below give the outcome of a piece  *)
(* of synchronous code as a record: d the driver after it, pc the next     *)
(* await, cd how close() settled if it did, opened whether open() has      *)
(* returned normally.                                                      *)
(***************************************************************************)
Adapters == {"daplink", "stlink"}

\* platformGen.length of ADAPTER_INFO: _detectPlatform() returns the
\* `openOcd` object itself for an adapter of one generation, and open()
\* then takes `.openOcd` of it.
TargetDetectable(a) == a = "daplink"

\* close(): await this._openocd.stop() and what follows.
CloseStop(d) ==
    LET d1 == Stop(d, "dev")
    IN  IF "dev" \in d1.stopRet
        THEN [d |-> [d1 EXCEPT !.stopRet = @ \ {"dev"}], pc |-> "idle",
              cd |-> "returned", opened |-> FALSE]
        ELSE [d |-> d1, pc |-> "close_stop", cd |-> "none",
              opened |-> FALSE]

\* close() up to its first await.
Close(d) ==
    IF d.state = "stopped"
    THEN [d |-> d, pc |-> "idle", cd |-> "returned", opened |-> FALSE]
    ELSE IF resetTarget(target)
         THEN IF CommandAccepted(d)
              THEN [d |-> Command(d, "dev"), pc |-> "close_reset",
                    cd |-> "none", opened |-> FALSE]
              ELSE [d |-> d, pc |-> "idle", cd |-> "threw",
                    opened |-> FALSE]
         ELSE CloseStop(d)

\* open(): if (!this.id) { this.id = await this._getDeviceId(); }
GetId(d) ==
    IF idKnown
    THEN [d |-> d, pc |-> "idle", cd |-> "none", opened |-> TRUE]
    ELSE IF CommandAccepted(d)
         THEN [d |-> Command(d, "dev"), pc |-> "open_id", cd |-> "none",
               opened |-> FALSE]
         ELSE Close(d)

\* open() after start() has resolved.
AfterStart(d) ==
    IF resetTarget(target)
    THEN IF CommandAccepted(d)
         THEN [d |-> Command(d, "dev"), pc |-> "open_reset", cd |-> "none",
               opened |-> FALSE]
         ELSE Close(d)
    ELSE GetId(d)

\* The stop() awaited by the catch block of start() has returned: throw err.
StartCatchReturns(d) ==
    IF d.startPc = "catch_stop" /\ "start" \in d.stopRet
    THEN [d EXCEPT !.stopRet = @ \ {"start"}, !.startPc = "failed"]
    ELSE d

\* What the device's suspended method does as soon as the call it awaits
\* on the driver has settled: start() in open(), stop() in close().
Continue(d) ==
    LET d0 == StartCatchReturns(d)
    IN  CASE odPc = "open_start" /\ d0.startPc \in {"ok", "failed"} ->
               LET d1 == [d0 EXCEPT !.startPc = "none"]
               IN  IF d0.startPc = "ok" THEN AfterStart(d1) ELSE Close(d1)
          [] odPc = "close_stop" /\ "dev" \in d0.stopRet ->
               [d |-> [d0 EXCEPT !.stopRet = @ \ {"dev"}], pc |-> "idle",
                cd |-> "returned", opened |-> FALSE]
          [] OTHER ->
               [d |-> d0, pc |-> odPc, cd |-> closeDone, opened |-> opened]

Becomes(r) ==
    /\ ocd' = r.d
    /\ odPc' = r.pc
    /\ closeDone' = r.cd
    /\ opened' = r.opened


OcdInit ==
    /\ ocd = OcdStopped
    /\ calls = 0

\* The OpenOcdDevice of the driver is not used.
DeviceUnused ==
    /\ adapter = "daplink" /\ target = "boron"
    /\ targetSet = FALSE /\ idKnown = FALSE /\ opened = FALSE
    /\ odPc = "unused" /\ closeDone = "none" /\ devOps = 0

\* The child process exits.
ProcessExits ==
    /\ ocd.procAlive
    /\ \E kind \in ExitKinds(ocd) : Becomes(Continue(ProcExited(ocd, kind)))
    /\ UNCHANGED <<calls, adapter, target, targetSet, idKnown, devOps>>
    /\ UNCHANGED notOcd

\* An earlier child process, still alive when the current one was spawned,
\* exits.  Nobody has killed it.
OrphanExits ==
    /\ ocd.orphan
    /\ \E kind \in {"code", "clean"} :
          Becomes(Continue(OrphanExited(ocd, kind)))
    /\ UNCHANGED <<calls, adapter, target, targetSet, idKnown, devOps>>
    /\ UNCHANGED notOcd

\* The telnet connection is closed, by either end.
TelnetCloses ==
    /\ ocd.telnetUp
    /\ Becomes(Continue(TelnetClosed(ocd)))
    /\ UNCHANGED <<calls, adapter, target, targetSet, idKnown, devOps>>
    /\ UNCHANGED notOcd

StartupTimer ==
    /\ ocd.startPc = "proc"
    /\ Becomes(Continue(TimerFired(ocd)))
    /\ UNCHANGED <<calls, adapter, target, targetSet, idKnown, devOps>>
    /\ UNCHANGED notOcd

TelnetConnects ==
    /\ ocd.startPc = "telnet"
    /\ ocd.procAlive
    /\ Becomes(Continue(Connected(ocd)))
    /\ UNCHANGED <<calls, adapter, target, targetSet, idKnown, devOps>>
    /\ UNCHANGED notOcd

\* telnet.connect() rejected: refused, or no prompt within its timeout.
TelnetConnectFails ==
    /\ ocd.startPc = "telnet"
    /\ Becomes(Continue(StartCatch(ocd)))
    /\ UNCHANGED <<calls, adapter, target, targetSet, idKnown, devOps>>
    /\ UNCHANGED notOcd

\* _stopProcess: await this._telnet.send('shutdown') resolves and end() is
\* called, or it rejects and the process is killed.
ShutdownSent ==
    /\ ocd.stopPc = "shutdown"
    /\ \/ Becomes(Continue([ocd EXCEPT !.stopPc = "end"]))
       \/ Becomes(Continue(Kill(ocd)))
    /\ UNCHANGED <<calls, adapter, target, targetSet, idKnown, devOps>>
    /\ UNCHANGED notOcd

\* _stopProcess: await this._telnet.end() resolves (kill = false), or it
\* rejects and the process is killed.
TelnetEnded ==
    /\ ocd.stopPc = "end"
    /\ \/ Becomes(Continue([ocd EXCEPT !.stopPc = "exitwait"]))
       \/ Becomes(Continue(Kill(ocd)))
    /\ UNCHANGED <<calls, adapter, target, targetSet, idKnown, devOps>>
    /\ UNCHANGED notOcd

\* _stopProcess: await stopped; this._procRunning = false; and stop() up to
\* its next await.
ProcessStopped ==
    /\ ocd.stopPc = "exitwait"
    /\ ocd.sawProcStopped
    /\ Becomes(Continue(DisconnectTelnet([ocd EXCEPT !.procRunning = FALSE])))
    /\ UNCHANGED <<calls, adapter, target, targetSet, idKnown, devOps>>
    /\ UNCHANGED notOcd

\* _disconnectTelnet: end() has resolved, or has rejected and destroy() has
\* resolved.
DisconnectEnded ==
    /\ ocd.stopPc = "disc_end"
    /\ Becomes(Continue([ocd EXCEPT !.stopPc = "disc_wait"]))
    /\ UNCHANGED <<calls, adapter, target, targetSet, idKnown, devOps>>
    /\ UNCHANGED notOcd

\* _disconnectTelnet: await disconnected; and stop() to its end.
TelnetDisconnected ==
    /\ ocd.stopPc = "disc_wait"
    /\ ocd.sawTelnetDisc
    /\ Becomes(Continue(SetStopped([ocd EXCEPT !.telnetConnected = FALSE,
                                                !.cmdRunning = FALSE])))
    /\ UNCHANGED <<calls, adapter, target, targetSet, idKnown, devOps>>
    /\ UNCHANGED notOcd

DriverStep ==
    \/ ProcessExits
    \/ TelnetCloses
    \/ StartupTimer
    \/ TelnetConnects
    \/ TelnetConnectFails
    \/ ShutdownSent
    \/ TelnetEnded
    \/ ProcessStopped
    \/ DisconnectEnded
    \/ TelnetDisconnected

(***************************************************************************)
(* Callers of the driver's methods other than OpenOcdDevice: at most       *)
(* MaxCalls calls of start(), stop() and command(), in any order and at    *)
(* any time, except that start() is called again only when the last        *)
(* start() has settled.                                                    *)
(***************************************************************************)
Callers == {"c1", "c2"}

\* start() is suspended at one of its awaits.
StartInProgress(d) == d.startPc \in {"proc", "telnet", "catch_stop"}

\* start(): throws at once unless the driver is STOPPED.
CallStart ==
    /\ calls < MaxCalls
    /\ ocd.startPc = "none"
    /\ calls' = calls + 1
    /\ ocd' = IF ocd.state = "stopped" THEN Start(ocd) ELSE ocd
    /\ UNCHANGED odVars
    /\ UNCHANGED notOcd

\* The caller of start() sees it resolve or reject.
StartSettles ==
    /\ ocd.startPc \in {"ok", "failed"}
    /\ ocd' = [ocd EXCEPT !.startPc = "none"]
    /\ UNCHANGED <<calls, odVars>>
    /\ UNCHANGED notOcd

CallStop ==
    /\ calls < MaxCalls
    /\ ocd.stopper # "env"
    /\ "env" \notin ocd.stopWait
    /\ calls' = calls + 1
    /\ ocd' = Stop([ocd EXCEPT !.stopRet = @ \ {"env"},
                              !.stopInStart = @ \/ StartInProgress(ocd)],
                  "env")
    /\ UNCHANGED odVars
    /\ UNCHANGED notOcd

\* command(): throws at once unless the driver is RUNNING and no command is
\* running.
CallCommand(c) ==
    /\ calls < MaxCalls
    /\ c \notin ocd.cmds
    /\ calls' = calls + 1
    /\ ocd' = IF CommandAccepted(ocd) THEN Command(ocd, c) ELSE ocd
    /\ UNCHANGED odVars
    /\ UNCHANGED notOcd

\* this._telnet.exec() of caller c settles: with the response, or with the
\* error of its timeout.
ExecSettles(c) ==
    /\ c \in ocd.cmds
    /\ ocd' = CommandFinally(ocd, c)
    /\ UNCHANGED <<calls, odVars>>
    /\ UNCHANGED notOcd

OcdNext ==
    \/ DriverStep
    \/ OrphanExits
    \/ CallStart
    \/ StartSettles
    \/ CallStop
    \/ \E c \in Callers : CallCommand(c)
    \/ \E c \in Callers : ExecSettles(c)
OcdDeviceInit ==
    /\ ocd = OcdStopped
    /\ calls = 0
    /\ adapter \in Adapters
    /\ target \in {"photon", "boron"}
    /\ targetSet = FALSE
    /\ idKnown \in BOOLEAN
    /\ opened = FALSE
    /\ odPc = "idle"
    /\ closeDone = "none"
    /\ devOps = 0

\* open() up to its first await on this._openocd.  A failed detection, and
\* the undefined target of a one-generation adapter, end in the catch
\* block, where close() finds the driver STOPPED.
DevOpen ==
    /\ odPc = "idle"
    /\ devOps < MaxDevOps
    /\ devOps' = devOps + 1
    /\ IF ocd.state # "stopped"
       THEN UNCHANGED <<ocd, odPc, closeDone, opened, targetSet>>
       ELSE \/ /\ targetSet \/ TargetDetectable(adapter)
               /\ targetSet' = TRUE
               /\ Becomes([d |-> Start(ocd), pc |-> "open_start",
                           cd |-> "none", opened |-> FALSE])
            \/ /\ ~targetSet
               /\ UNCHANGED targetSet
               /\ Becomes(Close(ocd))
    /\ UNCHANGED <<calls, adapter, target, idKnown>>
    /\ UNCHANGED notOcd

\* The command that open(), close() or another method awaits settles: with
\* the expected response ("ok"), with another response ("bad"), or with
\* the error of its timeout ("fail").
DevExecSettles ==
    /\ odPc \in {"open_reset", "open_id", "use_cmd", "close_reset"}
    /\ "dev" \in ocd.cmds
    /\ \E res \in {"ok", "bad", "fail"} :
         /\ res # "fail" => CanRespond(ocd, "dev")
         /\ res = "bad" => odPc = "open_id"
         /\ LET d1 == CommandFinally(ocd, "dev")
            IN  /\ Becomes(
                     CASE odPc = "open_reset" ->
                            IF res = "ok" THEN GetId(d1) ELSE Close(d1)
                       [] odPc = "open_id" ->
                            IF res = "ok"
                            THEN [d |-> d1, pc |-> "idle", cd |-> "none",
                                  opened |-> TRUE]
                            ELSE Close(d1)
                       [] odPc = "use_cmd" ->
                            [d |-> d1, pc |-> "idle", cd |-> closeDone,
                             opened |-> opened]
                       [] OTHER ->
                            IF res = "ok"
                            THEN [d |-> d1, pc |-> "close_delay",
                                  cd |-> "none", opened |-> FALSE]
                            ELSE [d |-> d1, pc |-> "idle", cd |-> "threw",
                                  opened |-> FALSE])
                /\ idKnown' = (idKnown \/ (odPc = "open_id" /\ res = "ok"))
    /\ UNCHANGED <<calls, adapter, target, targetSet, devOps>>
    /\ UNCHANGED notOcd

\* close(): await delay(DELAY_AFTER_RESET) is over.
DevDelay ==
    /\ odPc = "close_delay"
    /\ Becomes(CloseStop(ocd))
    /\ UNCHANGED <<calls, adapter, target, targetSet, idKnown, devOps>>
    /\ UNCHANGED notOcd

\* reset(), prepareToFlash() or writeToFlash() on the opened device: one
\* command, which throws at once when it is not accepted.
DevUse ==
    /\ odPc = "idle"
    /\ opened
    /\ devOps < MaxDevOps
    /\ devOps' = devOps + 1
    /\ IF CommandAccepted(ocd)
       THEN Becomes([d |-> Command(ocd, "dev"), pc |-> "use_cmd",
                     cd |-> closeDone, opened |-> opened])
       ELSE UNCHANGED <<ocd, odPc, closeDone, opened>>
    /\ UNCHANGED <<calls, adapter, target, targetSet, idKnown>>
    /\ UNCHANGED notOcd

\* close() called by the user of the device.
DevClose ==
    /\ odPc = "idle"
    /\ devOps < MaxDevOps
    /\ devOps' = devOps + 1
    /\ Becomes(Close(ocd))
    /\ UNCHANGED <<calls, adapter, target, targetSet, idKnown>>
    /\ UNCHANGED notOcd

OcdDeviceNext ==
    \/ DriverStep
    \/ DevOpen
    \/ DevExecSettles
    \/ DevDelay
    \/ DevUse
    \/ DevClose

OcdIdle ==
    /\ ocd = OcdStopped
    /\ calls = 0
    /\ DeviceUnused

(***************************************************************************)
(* ModuleCache: module binaries and their canonical list.                  *)
(* A module binary is a record of what _parseModuleBinary() reads from it: *)
(* platformId, type, index, version, fileSize, and file, its absolute path *)
(* as the sequence of the words of the path, the last one being the base   *)
(* name; valid is FALSE for a file that _parseModuleBinary() rejects;      *)
(* isAsset is the mark that _findMissingBinaries() puts on a bundled one.  *)
(***************************************************************************)
PlatformIds == {6, 12}

\* platformForId(id).name
platformName(id) == IF id = 6 THEN "photon" ELSE "argon"

\* hasRadioStack of the platform's generation, hasNcpFirmware of the platform
hasRadioStack(id) == id = 12
hasNcpFirmware(id) == id = 12

Bin(id, type, index, version, fileSize, file) ==
    [platformId |-> id, type |-> type, index |-> index, version |-> version,
     fileSize |-> fileSize, file |-> file, valid |-> TRUE, isAsset |-> FALSE]

\* m.file.match(/word/i)
Matches(file, word) == \E i \in DOMAIN file : file[i] = word

\* path.basename(m.file)
basename(file) == file[Len(file)]

\* The key of the Map of _parseModuleBinaries().
Key(m) == <<platformName(m.platformId), m.type, m.index>>

\* _parseModuleBinaries(): the existing entry m2 is kept and m is dropped.
Keeps(m2, m) ==
    LET isTinker == m.type = "user_part" /\ Matches(m.file, "tinker")
        hasTinker == m2.type = "user_part" /\ Matches(m2.file, "tinker")
    IN  IF hasTinker /\ ~isTinker
        THEN TRUE
        ELSE IF hasTinker \/ ~isTinker
             THEN IF m2.version # m.version
                  THEN m2.version > m.version
                  ELSE m2.fileSize < m.fileSize
             ELSE FALSE

\* Position in the Map (kept in insertion order) of the entry with m's key,
\* 0 if there is none.
Find(ms, m) ==
    IF \E i \in DOMAIN ms : Key(ms[i]) = Key(m)
    THEN CHOOSE i \in DOMAIN ms : Key(ms[i]) = Key(m)
    ELSE 0

\* One turn of the loop of _parseModuleBinaries() for the file f.
ParseStep(ms, f) ==
    IF ~f.valid
    THEN ms
    ELSE LET i == Find(ms, f)
         IN  IF i = 0 THEN Append(ms, f)
             ELSE IF Keeps(ms[i], f) THEN ms
             ELSE [ms EXCEPT ![i] = f]

RECURSIVE ParseFrom(_, _, _)
ParseFrom(ms, files, i) ==
    IF i > Len(files) THEN ms
    ELSE ParseFrom(ParseStep(ms, files[i]), files, i + 1)

\* _parseModuleBinaries(dir) for the files that fg.sync() lists in dir.
ParseModuleBinaries(files) == ParseFrom(<<>>, files, 1)

\* The sequences without repetition of at most n elements of S.
RECURSIVE ListsOf(_, _)
ListsOf(S, n) ==
    IF n = 0 THEN {<<>>}
    ELSE LET shorter == ListsOf(S, n - 1)
         IN  shorter \cup
             {Append(s, x) : s \in {t \in shorter : Len(t) = n - 1},
                             x \in S}

Distinct(s) == \A i, j \in DOMAIN s : i # j => s[i] # s[j]

(***************************************************************************)
(* _parseModuleBinaries() on its own, one file per step.                   *)
(***************************************************************************)
\* Binaries of one directory tree: user parts and system parts of one
\* platform that differ in version, size and path, a second index, a
\* second platform, and a file that is no module.
UserPaths == {<<"bin", "tinker">>, <<"bin", "app">>, <<"tinker", "app">>}

DirBins ==
    {Bin(6, "user_part", 1, v, s, f) :
        v \in {1, 2}, s \in {10, 20}, f \in UserPaths}
    \cup {Bin(6, "system_part", 1, v, s, <<"bin", "system-part1">>) :
        v \in {1, 2}, s \in {10, 20}}
    \cup {Bin(6, "system_part", 2, 1, 10, <<"bin", "system-part2">>),
          Bin(12, "user_part", 1, 1, 10, <<"bin", "tinker">>),
          [Bin(6, "user_part", 1, 1, 10, <<"bin", "junk">>)
              EXCEPT !.valid = FALSE]}

ParseInit ==
    /\ pFiles \in {fs \in ListsOf(DirBins, MaxFiles) : Distinct(fs)}
    /\ pIdx = 1
    /\ pModules = <<>>

\* for (const file of files) { ... }: the next file.
ParseFile ==
    /\ pIdx <= Len(pFiles)
    /\ pModules' = ParseStep(pModules, pFiles[pIdx])
    /\ pIdx' = pIdx + 1
    /\ UNCHANGED pFiles
    /\ UNCHANGED notParse

ParseNext == ParseFile

ParseIdle ==
    /\ pFiles = <<>>
    /\ pIdx = 0
    /\ pModules = <<>>

(***************************************************************************)
(* ModuleCache.getReleaseModules() and what it calls.  gcPc names the      *)
(* await at which the call is suspended.  What a request to the release    *)
(* host or a directory holds is chosen when it is read.                    *)
(***************************************************************************)
ModuleTypes ==
    {"user_part", "system_part", "bootloader", "radio_stack", "ncp_firmware"}

Junk(file) ==
    [Bin(6, "system_part", 1, 1, 10, file) EXCEPT !.valid = FALSE]

\* Module binaries among the assets of the release asked for, as the
\* recursive search of the download directory finds them: two versions of
\* one module, and two modules of one platform in files of the same name
\* in different directories.
ReleaseBins ==
    {Bin(6, "system_part", 1, 2, 10, <<"dl", "system-part1">>),
     Bin(6, "system_part", 1, 1, 10, <<"dl", "old", "system-part1">>),
     Bin(6, "user_part", 1, 1, 10, <<"dl", "tinker">>),
     Bin(6, "system_part", 2, 2, 10, <<"dl", "b", "system-part1">>),
     Bin(12, "system_part", 1, 2, 10, <<"dl", "argon-system-part1">>),
     Junk(<<"dl", "junk">>)}

\* Module binaries among the assets of an older release.
OlderBins ==
    {Bin(6, "bootloader", 0, 1, 10, <<"dl", "bootloader">>),
     Bin(6, "bootloader", 1, 1, 10, <<"dl", "boot1">>),
     Bin(6, "user_part", 1, 1, 10, <<"dl", "tinker">>)}

\* Binaries bundled in assets/binaries.
AssetBins ==
    {Bin(6, "bootloader", 0, 1, 10, <<"assets", "bootloader">>),
     Bin(6, "bootloader", 1, 1, 10, <<"assets", "bootloader1">>),
     Bin(12, "ncp_firmware", 0, 1, 10, <<"assets", "ncp">>)}

\* Binaries of a release directory of the cache.
CacheBins ==
    {Bin(6, "system_part", 1, 2, 10, <<"photon", "system-part1">>),
     Junk(<<"photon", "junk">>)}

\* modules.keys(): the platforms of ms in the order of their first module.
RECURSIVE PlatformOrder(_)
PlatformOrder(ms) ==
    IF ms = <<>> THEN <<>>
    ELSE LET id == ms[1].platformId
         IN  <<id>> \o PlatformOrder(SelectSeq(ms, LAMBDA m : m.platformId # id))

HasType(ms, id, t) ==
    \E i \in DOMAIN ms : ms[i].platformId = id /\ ms[i].type = t

\* missingModules after the first loop of _findMissingBinaries().
MissingModules(ms) ==
    {pt \in {ms[i].platformId : i \in DOMAIN ms} \X ModuleTypes :
        /\ ~HasType(ms, pt[1], pt[2])
        /\ \/ pt[2] = "radio_stack" /\ hasRadioStack(pt[1])
           \/ pt[2] = "ncp_firmware" /\ hasNcpFirmware(pt[1])
           \/ pt[2] \in {"user_part", "bootloader"}}

\* removeMissingModule(m.platformId, m.type) returns true.
IsMissingAlways(miss, m) == TRUE
IsMissing(miss, m) == <<m.platformId, m.type>> \in miss

\* A module of an older release that the backfill passes over.
NotBackfill(m) ==
    \/ m.type = "user_part" /\ ~Matches(m.file, "tinker")
    \/ m.type = "bootloader" /\ ~Matches(m.file, "bootloader")

\* for (const m of mods) { if (removeMissingModule(...)) { push } } from
\* the i-th candidate on.  s is [miss |-> ..., add |-> ...].
RECURSIVE Backfill(_, _, _, _)
Backfill(s, cands, i, older) ==
    IF i > Len(cands) THEN s
    ELSE LET m == cands[i]
         IN  IF (older /\ NotBackfill(m)) \/ ~IsMissing(s.miss, m)
             THEN Backfill(s, cands, i + 1, older)
             ELSE Backfill([miss |-> s.miss \ {<<m.platformId, m.type>>},
                            add |-> Append(s.add,
                                      [m EXCEPT !.isAsset = ~older])],
                           cands, i + 1, older)

\* Radio stack and NCP firmware are taken off the missing modules.
NeverPublished(miss) ==
    {pt \in miss : pt[2] \notin {"radio_stack", "ncp_firmware"}}

\* The last line of _findMissingBinaries(): the modules platform by platform,
\* those of the release first, then the ones that were added.
RECURSIVE Concat(_, _, _, _)
Concat(ms, add, order, i) ==
    IF i > Len(order) THEN <<>>
    ELSE SelectSeq(ms, LAMBDA m : m.platformId = order[i])
         \o SelectSeq(add, LAMBDA m : m.platformId = order[i])
         \o Concat(ms, add, order, i + 1)

AllModules(ms, add) == Concat(ms, add, PlatformOrder(ms), 1)

\* destFile = path.join(releaseDir, p.name, path.basename(m.file))
DestFile(m) == <<platformName(m.platformId), basename(m.file)>>

\* The modules as getReleaseModules() returns them after the cache update.
Cached(ms) == [i \in DOMAIN ms |-> [ms[i] EXCEPT !.file = DestFile(ms[i])]]

\* The files of the release directory after the update: a later copy to
\* the same destination replaces an earlier one.
CacheFilesAfter(ms) ==
    LET cs == Cached(ms)
        last(i) == \A j \in DOMAIN cs : j > i => cs[j].file # cs[i].file
        RECURSIVE Pick(_)
        Pick(i) == IF i > Len(cs) THEN <<>>
                   ELSE (IF last(i) THEN <<cs[i]>> ELSE <<>>) \o Pick(i + 1)
    IN  Pick(1)

\* if (!noCache && fs.existsSync(releaseDir))
ReadsCache(nc, exists) == ~nc /\ exists

\* if (!mods.length): the release has to be downloaded.
DownloadsAlways(ms) == TRUE
Downloads(ms) == ms = <<>>

\* The files a recursive search finds in the download directory of the
\* release asked for, and in a directory that is only read for backfill
\* or as a cache.
DirLists(bins) == {fs \in ListsOf(bins, MaxDirFiles) : Distinct(fs)}
SideLists(bins) == {fs \in ListsOf(bins, 2) : Distinct(fs)}

CacheInit ==
    /\ noCache \in BOOLEAN
    /\ draft \in BOOLEAN
    /\ cacheExists \in BOOLEAN
    /\ cacheFiles \in (IF cacheExists THEN SideLists(CacheBins) ELSE {<<>>})
    /\ gcPc = "start"
    /\ relDraft = FALSE /\ relFiles = <<>>
    /\ mods = <<>> /\ added = <<>> /\ missing = {}
    /\ olderLeft = 0 /\ page = 0
    /\ requests = 0 /\ writes = 0
    /\ result = <<>>
    /\ lookup = <<>> /\ gcError = "none"
    /\ cold = <<>> /\ torn = <<>>

\* if (!release.draft): the cache is updated.
PersistsAlways(isDraft) == TRUE
Persists(isDraft) == ~isDraft

\* The update of the cache stops at the first copyFileSync() or
\* unlinkSync() that throws: the first k modules have been copied by then,
\* all of them only when the unlink of the last download is what fails.
Interrupted(all) == {k \in 0..Len(all) : k < Len(all) \/ ~all[k].isAsset}

\* The end of getReleaseModules() once _findMissingBinaries() has returned
\* `all`: throw if it is empty, update the cache unless the release is a
\* draft, return.  The update clears the release directory and copies the
\* modules one by one; an exception of the file system ends the call with
\* the directory as it is at that point.
Finish(all) ==
    IF all = <<>>
    THEN /\ gcPc' = "failed"
         /\ gcError' = "NoBinaries"
         /\ UNCHANGED <<cacheExists, cacheFiles, torn, writes, result>>
    ELSE IF Persists(relDraft)
         THEN \/ /\ gcPc' = "done"
                 /\ cacheExists' = TRUE
                 /\ cacheFiles' = CacheFilesAfter(all)
                 /\ torn' = <<>>
                 /\ writes' = writes + 1
                 /\ result' = Cached(all)
                 /\ UNCHANGED gcError
              \/ \E k \in Interrupted(all) :
                    /\ gcPc' = "failed"
                    /\ gcError' = "FsError"
                    /\ cacheExists' = TRUE
                    /\ cacheFiles' = CacheFilesAfter(SubSeq(all, 1, k))
                    /\ torn' = Cached(all)
                    /\ UNCHANGED <<writes, result>>
         ELSE /\ gcPc' = "done"
              /\ result' = all
              /\ UNCHANGED <<cacheExists, cacheFiles, torn, writes, gcError>>

\* getReleaseModules() up to its first request: the cached modules are
\* returned if there are any, else getReleaseByTag('v' + version) is sent.
GetReleaseModules ==
    /\ gcPc = "start"
    /\ LET cached == IF ReadsCache(noCache, cacheExists)
                     THEN ParseModuleBinaries(cacheFiles)
                     ELSE <<>>
       IN  IF Downloads(cached)
           THEN /\ gcPc' = "tag_v"
                /\ requests' = requests + 1
                /\ UNCHANGED result
           ELSE /\ gcPc' = "done"
                /\ result' = cached
                /\ UNCHANGED requests
    /\ UNCHANGED <<noCache, draft, cacheExists, cacheFiles, torn, relDraft,
                   relFiles, mods, added, missing, olderLeft, page, writes,
                   lookup, gcError>>
    /\ UNCHANGED <<cold, notCache>>

\* _downloadRelease() once the release is known: with no .bin and no .zip
\* asset it returns [], whose `modules` is undefined, and
\* _findMissingBinaries() throws; else the assets are downloaded.
FoundRelease(isDraft, step) ==
    /\ relDraft' = isDraft
    /\ lookup' = Append(lookup, <<step, "found">>)
    /\ \E files \in DirLists(ReleaseBins) :
         /\ relFiles' = files
         /\ IF files = <<>>
            THEN /\ gcPc' = "failed" /\ gcError' = "TypeError"
                 /\ UNCHANGED requests
            ELSE /\ gcPc' = "download" /\ requests' = requests + Len(files)
                 /\ UNCHANGED gcError
    /\ UNCHANGED page

\* if (draft): the list of releases is searched for a draft.
ChecksDraftsAlways(d) == TRUE
ChecksDrafts(d) == d

\* The response to getReleaseByTag(): the release, 404, or another error.
ReleaseByTag ==
    /\ gcPc \in {"tag_v", "tag_plain"}
    /\ \/ \E isDraft \in BOOLEAN : FoundRelease(isDraft, gcPc)
       \/ /\ gcPc = "tag_v"
          /\ lookup' = Append(lookup, <<gcPc, "404">>)
          /\ gcPc' = "tag_plain"
          /\ requests' = requests + 1
          /\ UNCHANGED <<relDraft, relFiles, page, gcError>>
       \/ /\ gcPc = "tag_plain"
          /\ lookup' = Append(lookup, <<gcPc, "404">>)
          /\ IF ChecksDrafts(draft)
             THEN /\ gcPc' = "draft_list" /\ page' = 1
                  /\ requests' = requests + 1
                  /\ UNCHANGED gcError
             ELSE /\ gcPc' = "failed" /\ gcError' = "ReleaseNotFound"
                  /\ UNCHANGED <<page, requests>>
          /\ UNCHANGED <<relDraft, relFiles>>
       \/ /\ lookup' = Append(lookup, <<gcPc, "error">>)
          /\ gcPc' = "failed" /\ gcError' = "RequestError"
          /\ UNCHANGED <<relDraft, relFiles, page, requests>>
    /\ UNCHANGED <<noCache, draft, cacheExists, cacheFiles, torn, mods,
                   added, missing, olderLeft, writes, result>>
    /\ UNCHANGED <<cold, notCache>>

\* _findDraftRelease(): the response to listReleases({ page }): a page with
\* the draft of the version, a page without it, an empty page, or an error
\* (of the request, or of semver.eq() on a draft whose tag is no version).
FindDraftRelease ==
    /\ gcPc = "draft_list"
    /\ \/ FoundRelease(TRUE, "list")
       \/ /\ page < MaxPages
          /\ lookup' = Append(lookup, <<"list", "no_match">>)
          /\ page' = page + 1
          /\ requests' = requests + 1
          /\ UNCHANGED <<gcPc, relDraft, relFiles, gcError>>
       \/ /\ lookup' = Append(lookup, <<"list", "empty">>)
          /\ gcPc' = "failed" /\ gcError' = "ReleaseNotFound"
          /\ UNCHANGED <<relDraft, relFiles, page, requests>>
       \/ /\ lookup' = Append(lookup, <<"list", "error">>)
          /\ gcPc' = "failed" /\ gcError' = "RequestError"
          /\ UNCHANGED <<relDraft, relFiles, page, requests>>
    /\ UNCHANGED <<noCache, draft, cacheExists, cacheFiles, torn, mods,
                   added, missing, olderLeft, writes, result>>
    /\ UNCHANGED <<cold, notCache>>

\* _downloadAssets() has failed: _downloadRelease() throws.
DownloadFails ==
    /\ gcPc = "download"
    /\ gcPc' = "failed" /\ gcError' = "RequestError"
    /\ UNCHANGED <<noCache, draft, cacheExists, cacheFiles, torn, relDraft,
                   relFiles, mods, added, missing, olderLeft, page, requests,
                   writes, result, lookup>>
    /\ UNCHANGED <<cold, notCache>>

\* _downloadAssets() has returned: the downloads are parsed, and
\* _findMissingBinaries() runs up to its request for the older releases.
Downloaded ==
    /\ gcPc = "download"
    /\ LET ms == ParseModuleBinaries(relFiles)
           miss == MissingModules(ms)
       IN  /\ mods' = ms
           /\ IF miss = {}
              THEN /\ added' = <<>> /\ missing' = {}
                   /\ Finish(AllModules(ms, <<>>))
                   /\ UNCHANGED requests
              ELSE \E assets \in SideLists(AssetBins) :
                     LET s == Backfill([miss |-> miss, add |-> <<>>],
                                       ParseModuleBinaries(assets), 1, FALSE)
                         left == NeverPublished(s.miss)
                     IN  /\ added' = s.add
                         /\ missing' = left
                         /\ IF left = {}
                            THEN /\ Finish(AllModules(ms, s.add))
                                 /\ UNCHANGED requests
                            ELSE /\ gcPc' = "older_list"
                                 /\ requests' = requests + 1
                                 /\ UNCHANGED <<cacheExists, cacheFiles, torn,
                                                writes, result, gcError>>
    /\ UNCHANGED <<noCache, draft, relDraft, relFiles, olderLeft, page,
                   lookup>>
    /\ UNCHANGED <<cold, notCache>>

\* _listOlderReleaseVersions() has settled: with n older versions to probe,
\* or with an error.
OlderVersions ==
    /\ gcPc = "older_list"
    /\ \/ \E n \in 0..MaxOlder :
            /\ olderLeft' = n
            /\ IF n = 0
               THEN Finish(AllModules(mods, added)) /\ UNCHANGED requests
               ELSE /\ gcPc' = "older_dl"
                    /\ requests' = requests + 1
                    /\ UNCHANGED <<cacheExists, cacheFiles, torn, writes, result,
                                   gcError>>
       \/ /\ gcPc' = "failed" /\ gcError' = "RequestError"
          /\ UNCHANGED <<olderLeft, requests, cacheExists, cacheFiles, torn, writes,
                         result>>
    /\ UNCHANGED <<noCache, draft, relDraft, relFiles, mods, added,
                   missing, page, lookup>>
    /\ UNCHANGED <<cold, notCache>>

\* _downloadRelease(ver) of an older release has settled: with its parsed
\* binaries; with [] for a release that has no .bin and no .zip asset,
\* which has no `modules` for the loop to iterate; or with an error of a
\* request.
OlderRelease ==
    /\ gcPc = "older_dl"
    /\ \/ \E files \in SideLists(OlderBins) :
            LET s == Backfill([miss |-> missing, add |-> added],
                              ParseModuleBinaries(files), 1, TRUE)
            IN  /\ files # <<>>
                /\ added' = s.add
                /\ missing' = s.miss
                /\ olderLeft' = olderLeft - 1
                /\ IF s.miss = {} \/ olderLeft = 1
                   THEN Finish(AllModules(mods, s.add)) /\ UNCHANGED requests
                   ELSE /\ requests' = requests + 1
                        /\ UNCHANGED <<gcPc, cacheExists, cacheFiles, torn, writes,
                                       result, gcError>>
       \/ /\ gcPc' = "failed" /\ gcError' = "TypeError"
          /\ UNCHANGED <<added, missing, olderLeft, requests, cacheExists,
                         cacheFiles, torn, writes, result>>
       \/ /\ gcPc' = "failed" /\ gcError' = "RequestError"
          /\ UNCHANGED <<added, missing, olderLeft, requests, cacheExists,
                         cacheFiles, torn, writes, result>>
    /\ UNCHANGED <<noCache, draft, relDraft, relFiles, mods, page, lookup>>
    /\ UNCHANGED <<cold, notCache>>

\* getReleaseModules() is called again for the same version, with the
\* cache enabled, after a call that has updated the cache.
WarmCall ==
    /\ gcPc = "done" /\ writes = 1
    /\ cold' = result
    /\ gcPc' = "start"
    /\ noCache' = FALSE
    /\ draft' \in BOOLEAN
    /\ relDraft' = FALSE /\ relFiles' = <<>>
    /\ mods' = <<>> /\ added' = <<>> /\ missing' = {}
    /\ olderLeft' = 0 /\ page' = 0
    /\ requests' = 0 /\ writes' = 0
    /\ result' = <<>>
    /\ lookup' = <<>> /\ gcError' = "none"
    /\ UNCHANGED <<cacheExists, cacheFiles, torn>>
    /\ UNCHANGED notCache

\* getReleaseModules() is called again for the same version, with the
\* cache enabled, after a call whose update of the cache threw and left
\* files in the release directory.
CallAgain ==
    /\ gcPc = "failed" /\ gcError = "FsError"
    /\ cacheFiles # <<>>
    /\ gcPc' = "start"
    /\ noCache' = FALSE
    /\ draft' \in BOOLEAN
    /\ relDraft' = FALSE /\ relFiles' = <<>>
    /\ mods' = <<>> /\ added' = <<>> /\ missing' = {}
    /\ olderLeft' = 0 /\ page' = 0
    /\ requests' = 0 /\ writes' = 0
    /\ result' = <<>>
    /\ lookup' = <<>> /\ gcError' = "none"
    /\ UNCHANGED <<cacheExists, cacheFiles, torn, cold>>
    /\ UNCHANGED notCache

CacheNext ==
    \/ GetReleaseModules
    \/ ReleaseByTag
    \/ FindDraftRelease
    \/ DownloadFails
    \/ Downloaded
    \/ OlderVersions
    \/ OlderRelease
    \/ WarmCall
    \/ CallAgain

CacheIdle ==
    /\ noCache = FALSE /\ draft = FALSE
    /\ cacheExists = FALSE /\ cacheFiles = <<>>
    /\ gcPc = "idle"
    /\ relDraft = FALSE /\ relFiles = <<>>
    /\ mods = <<>> /\ added = <<>> /\ missing = {}
    /\ olderLeft = 0 /\ page = 0
    /\ requests = 0 /\ writes = 0
    /\ result = <<>>
    /\ lookup = <<>> /\ gcError = "none"
    /\ cold = <<>> /\ torn = <<>>

(***************************************************************************)
(* App.init() (src/lib/app.js).  stPc names the await at which init() is   *)
(* suspended and stDid lists, in order, what it has done so far.           *)
(***************************************************************************)
StartupArgs ==
    [draft : BOOLEAN,                \* args.draft
     token : BOOLEAN,                \* process.env.GITHUB_TOKEN is set
     version : {"none", "invalid", "path", "version"},   \* args._[0]
     device : {"none", "all", "list"},  \* args.device, args['all-devices']
     retries : {"default", "invalid"},  \* args.retries
     jobs : {"default", "invalid"},     \* args.jobs
     openocd : BOOLEAN,              \* args.openocd
     control : BOOLEAN,              \* args.control
     mark : BOOLEAN]                 \* args['mark-development']

\* if (args.draft && !process.env.GITHUB_TOKEN)
NeedsTokenNever(a) == FALSE
NeedsToken(a) == a.draft /\ ~a.token

\* The four parsers in the order init() calls them: the first argument
\* that is rejected, or "none".
ParseError(a) ==
    IF a.version = "none" THEN "VersionNotSpecified"
    ELSE IF a.version = "invalid" THEN "InvalidVersion"
    ELSE IF a.device = "none" THEN "DeviceNotSpecified"
    ELSE IF a.retries = "invalid" THEN "InvalidRetries"
    ELSE IF a.jobs = "invalid" THEN "InvalidJobs"
    ELSE "none"

\* The flash interfaces init() initializes after the modules, first first.
FirstInterface(a) ==
    IF a.openocd THEN "ocd_init" ELSE IF ~a.control THEN "dfu_init"
    ELSE "usb_init"

StartupInit ==
    /\ stArgs \in StartupArgs
    /\ stPc = "start"
    /\ stDid = <<>>
    /\ stError = "none"

\* init() from its call to the await of this._cache.init().
InitCalled ==
    /\ stPc = "start"
    /\ IF NeedsToken(stArgs)
       THEN /\ stPc' = "thrown" /\ stError' = "AuthenticationRequired"
            /\ UNCHANGED stDid
       ELSE IF ParseError(stArgs) # "none"
       THEN /\ stPc' = "thrown" /\ stError' = ParseError(stArgs)
            /\ stDid' = <<"parse">>
       ELSE /\ stPc' = "cache_init"
            /\ stDid' = <<"parse", "home_dir", "temp_dir", "cache_init">>
            /\ UNCHANGED stError
    /\ UNCHANGED stArgs
    /\ UNCHANGED notStartup

\* What init() does when the call it awaits at `at` has returned: the next
\* await and what is started there.
AfterAwait(at, a) ==
    CASE at = "cache_init" -> "get_modules"
      [] at = "get_modules" -> FirstInterface(a)
      [] at = "ocd_init" -> IF ~a.control THEN "dfu_init" ELSE "usb_init"
      [] at = "dfu_init" -> "usb_init"
      [] at = "usb_init" -> "list_devices"
      [] at = "list_devices" -> "target_devices"
      [] at = "target_devices" ->
            IF a.mark THEN "mark_development" ELSE "flash_devices"
      [] at = "mark_development" -> "flash_devices"
      [] at = "flash_devices" -> "returned"

Awaits ==
    {"cache_init", "get_modules", "ocd_init", "dfu_init", "usb_init",
     "list_devices", "target_devices", "mark_development", "flash_devices"}

\* The call init() awaits returns.
AwaitReturns ==
    /\ stPc \in Awaits
    /\ stPc' = AfterAwait(stPc, stArgs)
    /\ stDid' = IF stPc' = "returned" THEN stDid ELSE Append(stDid, stPc')
    /\ UNCHANGED <<stArgs, stError>>
    /\ UNCHANGED notStartup

\* The call init() awaits throws: init() throws.
AwaitThrows ==
    /\ stPc \in Awaits
    /\ stPc' = "thrown"
    /\ stError' = stPc
    /\ UNCHANGED <<stArgs, stDid>>
    /\ UNCHANGED notStartup

StartupNext ==
    \/ InitCalled
    \/ AwaitReturns
    \/ AwaitThrows

StartupIdle ==
    /\ stArgs = [draft |-> FALSE, token |-> FALSE, version |-> "none",
                 device |-> "none", retries |-> "default",
                 jobs |-> "default", openocd |-> FALSE, control |-> FALSE,
                 mark |-> FALSE]
    /\ stPc = "idle"
    /\ stDid = <<>>
    /\ stError = "none"

(***************************************************************************)
(* App._getTargetDevices (src/lib/app.js)                                  *)
(*                                                                         *)
(* The local devices are a function from their ids to their platformId,    *)
(* which is Unknown when the transport and the USB probe did not supply    *)
(* it. The registry lists each device and each name once.                  *)
(***************************************************************************)
Unknown == 0

DeviceIds == {"d1", "d2"}

DeviceNames == {"n1", "n2"}

\* The entries _parseDeviceArgs() builds: an id or a name, and a platform
\* hint when the argument has the form <device>:<platform>.
DevArgs ==
    {a \in [id : DeviceIds \cup {""}, name : DeviceNames \cup {""},
            platformId : {Unknown, 12}] : (a.id = "") # (a.name = "")}

UserDevs == [id : DeviceIds, name : DeviceNames, platformId : PlatformIds]

\* devMap, unknownPlatformDevIds, argDevIds and argDevNames before the loop
\* over devArgs. platformId holds dev.platformId of every device of devMap.
Locals(localDevs) ==
    [platformId |-> localDevs,
     unknownPlatformDevIds |->
         {id \in DOMAIN localDevs : localDevs[id] = Unknown},
     argDevIds |-> {},
     argDevNames |-> {},
     error |-> "none"]

\* The body of the loop over devArgs without the lookup in devMap.
ArgStepNoLookup(s, arg) ==
    IF arg.id # ""
    THEN [s EXCEPT !.argDevIds = @ \cup {arg.id}]
    ELSE [s EXCEPT !.argDevNames = @ \cup {arg.name}]

\* The body of the loop over devArgs.
ArgStep(s, arg) ==
    IF arg.id # ""
    THEN IF arg.id \notin DOMAIN s.platformId
         THEN [s EXCEPT !.error = "DeviceNotFound"]
         ELSE LET hint == /\ s.platformId[arg.id] = Unknown
                          /\ arg.platformId # Unknown
              IN  [s EXCEPT
                     !.platformId[arg.id] =
                         IF hint THEN arg.platformId ELSE @,
                     !.unknownPlatformDevIds =
                         IF hint THEN @ \ {arg.id} ELSE @,
                     !.argDevIds = @ \cup {arg.id}]
    ELSE [s EXCEPT !.argDevNames = @ \cup {arg.name}]

RECURSIVE ArgsFrom(_, _)
ArgsFrom(s, args) ==
    IF args = <<>> \/ s.error # "none"
    THEN s
    ELSE ArgsFrom(ArgStep(s, Head(args)), Tail(args))

\* The registry asked only for the devices that were requested.
NeedsCloudForRequested(s) ==
    \/ s.argDevNames # {}
    \/ \E id \in s.unknownPlatformDevIds : s.argDevIds = {} \/ id \in s.argDevIds

\* The condition under which the registry is asked.
NeedsCloud(s) == s.argDevNames # {} \/ s.unknownPlatformDevIds # {}

\* The body of the loop over userDevs.
UserDevStep(s, userDev) ==
    LET named == userDev.name \in s.argDevNames
        s1 == IF ~named
              THEN s
              ELSE IF userDev.id \notin DOMAIN s.platformId
              THEN [s EXCEPT !.argDevNames = @ \ {userDev.name},
                             !.error = "DeviceNotFound"]
              ELSE [s EXCEPT !.argDevNames = @ \ {userDev.name},
                             !.argDevIds = @ \cup {userDev.id}]
    IN  IF s1.error = "none" /\ userDev.id \in s1.unknownPlatformDevIds
        THEN [s1 EXCEPT !.unknownPlatformDevIds = @ \ {userDev.id},
                        !.platformId[userDev.id] = userDev.platformId]
        ELSE s1

RECURSIVE UserDevsFrom(_, _)
UserDevsFrom(s, userDevs) ==
    IF userDevs = <<>> \/ s.error # "none"
    THEN s
    ELSE UserDevsFrom(UserDevStep(s, Head(userDevs)), Tail(userDevs))

\* The check of the names left after the loop over userDevs.
NamesLeft(s) ==
    IF s.error = "none" /\ s.argDevNames # {}
    THEN [s EXCEPT !.error = "UnknownDevice"]
    ELSE s

StillUnknownNever(s) == FALSE

\* The check of unknownPlatformDevIds before targetDevs is returned.
StillUnknown(s) == s.unknownPlatformDevIds # {}

\* targetDevs: the local devices, filtered when argDevIds is not empty.
TargetDevs(s) ==
    IF s.argDevIds # {}
    THEN {id \in DOMAIN s.platformId : id \in s.argDevIds}
    ELSE DOMAIN s.platformId

\* The end of _getTargetDevices(), from `let targetDevs = localDevs`.
Select(s) ==
    LET unused == DOMAIN s.platformId \ TargetDevs(s)
        s1 == [s EXCEPT !.unknownPlatformDevIds = @ \ unused]
    IN  IF s.error # "none"
        THEN s
        ELSE IF StillUnknown(s1)
        THEN [s1 EXCEPT !.error = "UnknownDevice"]
        ELSE s1

Settle(s) ==
    /\ tg' = s
    /\ tgPc' = IF s.error = "none" THEN "done" ELSE "failed"
    /\ tgError' = s.error
    /\ tgResult' = IF s.error = "none" THEN TargetDevs(s) ELSE {}

TargetsInit ==
    /\ tgLocal \in UNION {[ids -> {Unknown, 6}] : ids \in SUBSET DeviceIds}
    /\ tgArgs \in ListsOf(DevArgs, MaxDevArgs)
    /\ tgUserDevs \in
           {l \in ListsOf(UserDevs, MaxUserDevs) :
               \A i, j \in DOMAIN l :
                   i # j => l[i].id # l[j].id /\ l[i].name # l[j].name}
    /\ tgPc = "start"
    /\ tg = Locals(tgLocal)
    /\ tgResult = {}
    /\ tgError = "none"
    /\ tgCloud = 0

\* _getTargetDevices() up to `await this._particleApi()`, or to its end
\* when the registry is not needed.
GetTargetDevices ==
    /\ tgPc = "start"
    /\ LET s == ArgsFrom(Locals(tgLocal), tgArgs)
       IN  IF s.error = "none" /\ NeedsCloud(s)
           THEN /\ tgPc' = "cloud"
                /\ tg' = s
                /\ tgCloud' = tgCloud + 1
                /\ UNCHANGED <<tgResult, tgError>>
           ELSE /\ Settle(Select(s))
                /\ UNCHANGED tgCloud
    /\ UNCHANGED <<tgLocal, tgArgs, tgUserDevs>>
    /\ UNCHANGED notTargets

\* _particleApi() or api.getDevices() throws.
CloudFails ==
    /\ tgPc = "cloud"
    /\ Settle([tg EXCEPT !.error = "RequestError"])
    /\ UNCHANGED <<tgLocal, tgArgs, tgUserDevs, tgCloud>>
    /\ UNCHANGED notTargets

\* api.getDevices() returns: the rest of _getTargetDevices().
CloudReturns ==
    /\ tgPc = "cloud"
    /\ Settle(Select(NamesLeft(UserDevsFrom(tg, tgUserDevs))))
    /\ UNCHANGED <<tgLocal, tgArgs, tgUserDevs, tgCloud>>
    /\ UNCHANGED notTargets

TargetsNext == GetTargetDevices \/ CloudFails \/ CloudReturns

TargetsIdle ==
    /\ tgLocal = <<>>
    /\ tgArgs = <<>>
    /\ tgUserDevs = <<>>
    /\ tgPc = "start"
    /\ tg = Locals(<<>>)
    /\ tgResult = {}
    /\ tgError = "none"
    /\ tgCloud = 0

(***************************************************************************)
(* App._listLocalDevices (src/lib/app.js)                                  *)
(*                                                                         *)
(* The probe with particle-usb ahead of listDevices() only fills           *)
(* devPlatforms and swallows every error; it is left out. A job is the     *)
(* async function given to limit() for one device of foundDevs:            *)
(*   pc      "queued", "opening" (await dev.open()), "closing" (await      *)
(*           dev.close() in the finally block), "resolved", "rejected"     *)
(*   retries the local `retries`                                           *)
(*   then    what follows the finally block: "break", "retry", "throw",    *)
(*           or "close_threw" once dev.close() has thrown                  *)
(* ls.open holds the devices that have a handle (a running daemon);        *)
(* ls.opens counts the calls of dev.open() per device.                     *)
(***************************************************************************)
\* The devices DfuFlashInterface and UsbFlashInterface list carry their id;
\* an OpenOcdDevice learns its id in open().
HasId(flashIf) == flashIf # "openocd"

Job(retries) == [pc |-> "queued", retries |-> retries, then |-> "none"]

ListStart(n, retries) ==
    [pc |-> "start",
     jobs |-> [i \in 1..n |-> Job(retries)],
     devs |-> <<>>,
     open |-> {},
     opens |-> [i \in 1..n |-> 0],
     closes |-> [i \in 1..n |-> 0],
     error |-> "none"]

\* One pass of the for (;;) loop of job i up to its first await.
Attempt(e, i) ==
    IF HasId(lsIf)
    THEN [e EXCEPT !.devs = Append(@, i),
                   !.jobs[i].then = "break",
                   !.jobs[i].pc = "closing"]
    ELSE [e EXCEPT !.jobs[i].pc = "opening",
                   !.opens[i] = @ + 1]

JobsAt(e, pcs) == {i \in DOMAIN e.jobs : e.jobs[i].pc \in pcs}

\* p-limit: queued jobs are started in order while a slot is free.
RECURSIVE Dequeue(_)
Dequeue(e) ==
    LET queued == JobsAt(e, {"queued"})
        active == Cardinality(JobsAt(e, {"opening", "closing"}))
    IN  IF queued # {} /\ HasSlot(active, lsMaxJobs)
        THEN Dequeue(Attempt(e, CHOOSE i \in queued :
                                    \A j \in queued : i <= j))
        ELSE e

\* await Promise.all(promises) and what follows it.
AllWaits(e, err) ==
    IF e.pc # "jobs"
    THEN e
    ELSE IF JobsAt(e, {"rejected"}) # {}
    THEN [e EXCEPT !.pc = "failed", !.error = err]
    ELSE IF JobsAt(e, {"resolved"}) = DOMAIN e.jobs
    THEN IF e.devs = <<>>
         THEN [e EXCEPT !.pc = "failed", !.error = "NoDevicesFound"]
         ELSE [e EXCEPT !.pc = "returned"]
    ELSE e

\* The catch block of a job: what follows the finally block.
Catch(retries) == IF retries = 0 THEN "throw" ELSE "retry"

EnumerateInit ==
    /\ lsIf \in {"openocd", "dfu", "usb"}
    /\ lsCount \in 0..MaxDevices
    /\ lsMaxRetries \in 0..MaxRetriesBound
    /\ lsMaxJobs \in {1, 2, Infinity}
    /\ ls = ListStart(lsCount, lsMaxRetries)

\* flashIf.listDevices() returns, the jobs are created and the first of
\* them run up to their first await.
ListDevices ==
    /\ ls.pc = "start"
    /\ ls' = AllWaits(Dequeue([ls EXCEPT !.pc = "jobs"]), "none")
    /\ UNCHANGED <<lsIf, lsCount, lsMaxRetries, lsMaxJobs>>
    /\ UNCHANGED notEnumerate

\* dev.open() returns in job i: devs.push(dev), break, and the finally
\* block calls dev.close().
OpenReturns(i) ==
    /\ i \in DOMAIN ls.jobs
    /\ ls.jobs[i].pc = "opening"
    /\ ls' = [ls EXCEPT !.open = @ \cup {i},
                        !.devs = Append(@, i),
                        !.jobs[i].then = "break",
                        !.jobs[i].pc = "closing"]
    /\ UNCHANGED <<lsIf, lsCount, lsMaxRetries, lsMaxJobs>>
    /\ UNCHANGED notEnumerate

\* dev.open() throws in job i: the catch block, then the finally block
\* calls dev.close().
OpenThrows(i) ==
    /\ i \in DOMAIN ls.jobs
    /\ ls.jobs[i].pc = "opening"
    /\ ls' = [ls EXCEPT
                !.jobs[i].then = Catch(ls.jobs[i].retries),
                !.jobs[i].retries = IF @ = 0 THEN 0 ELSE @ - 1,
                !.jobs[i].pc = "closing"]
    /\ UNCHANGED <<lsIf, lsCount, lsMaxRetries, lsMaxJobs>>
    /\ UNCHANGED notEnumerate

\* dev.close() returns in job i: the job ends, or its loop goes round.
CloseReturns(i) ==
    /\ i \in DOMAIN ls.jobs
    /\ ls.jobs[i].pc = "closing"
    /\ LET e == [ls EXCEPT !.open = @ \ {i}, !.closes[i] = @ + 1]
       IN  ls' =
             CASE ls.jobs[i].then = "retry" -> Attempt(e, i)
               [] ls.jobs[i].then = "break" ->
                    AllWaits(Dequeue([e EXCEPT !.jobs[i].pc = "resolved"]),
                             "none")
               [] ls.jobs[i].then = "throw" ->
                    AllWaits(Dequeue([e EXCEPT !.jobs[i].pc = "rejected"]),
                             "OpenFailed")
    /\ UNCHANGED <<lsIf, lsCount, lsMaxRetries, lsMaxJobs>>
    /\ UNCHANGED notEnumerate

\* dev.close() throws in job i, which can happen when an OpenOcdDevice has
\* a daemon running: the exception leaves the finally block and the job.
CloseThrows(i) ==
    /\ i \in DOMAIN ls.jobs
    /\ ls.jobs[i].pc = "closing"
    /\ lsIf = "openocd" /\ i \in ls.open
    /\ ls' = AllWaits(Dequeue([ls EXCEPT !.jobs[i].pc = "rejected",
                                         !.jobs[i].then = "close_threw",
                                         !.closes[i] = @ + 1]),
                      "CloseFailed")
    /\ UNCHANGED <<lsIf, lsCount, lsMaxRetries, lsMaxJobs>>
    /\ UNCHANGED notEnumerate

EnumerateNext ==
    \/ ListDevices
    \/ \E i \in 1..MaxDevices :
          OpenReturns(i) \/ OpenThrows(i) \/ CloseReturns(i) \/ CloseThrows(i)

EnumerateIdle ==
    /\ lsIf = "usb"
    /\ lsCount = 0
    /\ lsMaxRetries = 0
    /\ lsMaxJobs = Infinity
    /\ ls = ListStart(0, 0)

(***************************************************************************)
(* Platform.storageForFirmwareModule (src/lib/platform.js)                 *)
(***************************************************************************)
\* `undefined` as the value of an index.
NoIndex == 0

Null == [null |-> TRUE]

\* The descriptors the constructor of Platform builds.
FwModules ==
    [type : {"system_part", "user_part"},
     index : {NoIndex, 1, 2},
     storage : {"internal_flash", "external_flash"},
     encrypted : BOOLEAN]

\* The property `index` of an array: an array has none.
ArrayIndex(arr) == NoIndex

\* Array.prototype.find for m => m.index === index: the first match.
FindIndex(arr, index) ==
    LET at == {i \in DOMAIN arr : arr[i].index = index}
    IN  IF at = {}
        THEN Null
        ELSE arr[CHOOSE i \in at : \A j \in at : i <= j]

StorageOf(m) == [type |-> m.storage, encrypted |-> m.encrypted]

storageForFirmwareModule(type, index) ==
    LET m == SelectSeq(fwModules, LAMBDA x : x.type = type)
    IN  IF Len(m) = 0
        THEN Null
        ELSE IF Len(m) = 1
        THEN IF ArrayIndex(m) # NoIndex /\ ArrayIndex(m) # index
             THEN Null
             ELSE StorageOf(m[1])
        ELSE IF FindIndex(m, index) = Null
             THEN Null
             ELSE StorageOf(FindIndex(m, index))

StorageInit ==
    /\ fwModules \in ListsOf(FwModules, MaxFwModules)
    /\ sfType \in {"system_part", "user_part"}
    /\ sfIndex \in {NoIndex, 1, 2}
    /\ sfPc = "start"
    /\ sfResult = Null

StorageLookup ==
    /\ sfPc = "start"
    /\ sfPc' = "done"
    /\ sfResult' = storageForFirmwareModule(sfType, sfIndex)
    /\ UNCHANGED <<fwModules, sfType, sfIndex>>
    /\ UNCHANGED notStorage

StorageNext == StorageLookup

StorageIdle ==
    /\ fwModules = <<>>
    /\ sfType = "system_part"
    /\ sfIndex = NoIndex
    /\ sfPc = "start"
    /\ sfResult = Null

(***************************************************************************)
(* TelnetClient (src/unnamed/part_008)                                     *)
(*                                                                         *)
(* tn holds the fields of the client under their names, and                *)
(*   pc      where connect() is: "idle", suspended in "socket"             *)
(*           (_connectSocket), "negotiating" (_negotiateOptions), "login", *)
(*           "password", "shell" (the three waits of _login), "failing"    *)
(*           (await this._error(err) in its catch block), or settled as    *)
(*           "returned" or "thrown" with err                               *)
(*   sock    "none", "connecting", "open" or "destroyed"                   *)
(*   timer   the connect timer is armed                                    *)
(*   disc    the disconnect() that left DISCONNECTING: "none", "socket"    *)
(*           (await this._disconnectSocket()), "immediate" (setImmediate)  *)
(*   joiners calls of disconnect() waiting for the DISCONNECTED event      *)
(* and the histories checked (the outcome of the SUPPRESS-GO-AHEAD test),  *)
(* sent (what was written after a prompt) and calls (calls of              *)
(* disconnect() by the user).                                              *)
(* An action is one event of the event loop with the promise reactions it  *)
(* triggers. The server sends one option command or one line per data      *)
(* event, and is taken to be silent once the client leaves CONNECTING and  *)
(* CONNECTED.                                                              *)
(***************************************************************************)
Options ==
    {"clientEcho", "clientSuppressGoAhead",
     "serverEcho", "serverSuppressGoAhead"}

\* IAC WILL/WONT/DO/DONT for the options the client knows.
Commands == [cmd : {"WILL", "WONT", "DO", "DONT"}, opt : {"ECHO", "SGA"}]

Prompts == {"login", "password", "shell"}

Waits == {"socket", "negotiating", "login", "password", "shell"}

\* connect() options: enableEcho, suppressGoAhead, whether user and password
\* are strings; and whether the user has an 'error' listener on the client.
TelnetOptions ==
    [enableEcho : BOOLEAN, suppressGoAhead : BOOLEAN,
     user : BOOLEAN, password : BOOLEAN, errorListener : BOOLEAN]

\* _resetState()
ResetState(t) ==
    [t EXCEPT !.state = "disconnected",
              !.current = [o \in Options |-> "no"],
              !.desired = [o \in Options |-> "no"],
              !.recvBuf = <<>>,
              !.expectLoginPrompt = TRUE,
              !.loginPromptReceived = FALSE,
              !.expectPasswordPrompt = FALSE,
              !.passwordPromptReceived = FALSE,
              !.shellPromptReceived = FALSE,
              !.optionsNegotiated = FALSE,
              !.failed = FALSE,
              !.sock = IF @ = "none" THEN "none" ELSE "destroyed"]

\* The client after its constructor.
NewClient ==
    ResetState([state |-> "disconnected", current |-> <<>>, desired |-> <<>>,
                recvBuf |-> <<>>, expectLoginPrompt |-> TRUE,
                loginPromptReceived |-> FALSE,
                expectPasswordPrompt |-> FALSE,
                passwordPromptReceived |-> FALSE,
                shellPromptReceived |-> FALSE,
                optionsNegotiated |-> FALSE, failed |-> FALSE,
                sock |-> "none", timer |-> FALSE, pc |-> "idle",
                err |-> "none", disc |-> "none", joiners |-> 0,
                checked |-> "none", sent |-> <<>>,
                calls |-> 0])

\* _sendOptions(): the switch over opt.currentState for one option.
SendOption(current, desired) ==
    IF desired = "yes"
    THEN CASE current = "no" -> "want_yes"
           [] current = "want_no" -> "want_no_opposite"
           [] current = "want_yes_opposite" -> "want_yes"
           [] OTHER -> current
    ELSE CASE current = "yes" -> "want_no"
           [] current = "want_no_opposite" -> "want_no"
           [] current = "want_yes" -> "want_yes_opposite"
           [] OTHER -> current

\* _receiveOption(): the switch for WILL (server options) and DO (client
\* options).
Agreed(current, desired) ==
    CASE current = "no" -> IF desired = "yes" THEN "yes" ELSE "no"
      [] current = "yes" -> "yes"
      [] current = "want_no" -> "no"
      [] current = "want_no_opposite" -> "yes"
      [] current = "want_yes" -> "yes"
      [] current = "want_yes_opposite" -> "want_no"

\* _receiveOption(): the switch for WONT (server options) and DONT (client
\* options).
Refused(current) ==
    IF current = "want_no_opposite" THEN "want_yes" ELSE "no"

\* The option a command is about.
OptionOf(c) ==
    IF c.cmd \in {"WILL", "WONT"}
    THEN IF c.opt = "ECHO" THEN "serverEcho" ELSE "serverSuppressGoAhead"
    ELSE IF c.opt = "ECHO" THEN "clientEcho" ELSE "clientSuppressGoAhead"

\* opts.find(opt => opt.code === optCode) finds an option.
Supported(c) == c.opt \in {"ECHO", "SGA"}

ReceiveOption(t, c) ==
    IF ~Supported(c)
    THEN t
    ELSE [t EXCEPT !.current[OptionOf(c)] =
                      IF c.cmd \in {"WILL", "DO"}
                      THEN Agreed(@, t.desired[OptionOf(c)])
                      ELSE Refused(@)]

NegotiatingOptions(t) ==
    \E o \in Options : t.current[o] \notin {"yes", "no"}

\* connect() throws err: its finally block clears the timer.
Throw(t, err) == [t EXCEPT !.pc = "thrown", !.err = err, !.timer = FALSE]

\* disconnect() that does not emit '_error'.
InterruptNothing(t, err) == t

\* emit('_error', err) with _failed set: the promise connect() waits for is
\* rejected, and the catch block of connect() rethrows at once.
Interrupt(t, err) == IF t.pc \in Waits THEN Throw(t, err) ELSE t

\* _disconnectSocket() up to its await, and the rest of disconnect() when
\* it does not wait.
DisconnectSocket(t) ==
    CASE t.sock = "open" -> [t EXCEPT !.disc = "socket"]
      [] OTHER -> [t EXCEPT !.sock = "destroyed", !.disc = "immediate"]

\* disconnect()
Disconnect(t) ==
    CASE t.state = "disconnected" -> t
      [] t.state = "disconnecting" -> [t EXCEPT !.joiners = @ + 1]
      [] OTHER ->
           LET t1 == [t EXCEPT !.state = "disconnecting"]
               t2 == IF t1.failed
                     THEN t1
                     ELSE Interrupt([t1 EXCEPT !.failed = TRUE],
                                    "DisconnectRequested")
           IN  DisconnectSocket(t2)

\* emit('error', err) throws when the client has no 'error' listener.
EmitErrorThrows == ~tnOpts.errorListener

\* _error(err) called by an event handler of the socket or by the timer.
TelnetError(t, err) ==
    IF t.failed
    THEN t
    ELSE LET t1 == Interrupt([t EXCEPT !.failed = TRUE], err)
         IN  IF EmitErrorThrows THEN t1 ELSE Disconnect(t1)

\* The catch block of connect() for an error thrown by the code of
\* connect() itself: await this._error(err), then throw err.
ConnectCatch(t, err) ==
    IF t.failed \/ EmitErrorThrows
    THEN Throw([t EXCEPT !.failed = TRUE], err)
    ELSE LET t1 == Disconnect([t EXCEPT !.failed = TRUE])
         IN  IF t1.disc = "socket"
             THEN [t1 EXCEPT !.pc = "failing", !.err = err]
             ELSE Throw(t1, err)

\* The end of _login() and of connect().
LoggedIn(t) ==
    [t EXCEPT !.state = "connected", !.pc = "returned", !.timer = FALSE]

\* _login() from its third wait.
LoginShell(t) ==
    IF ~t.shellPromptReceived THEN [t EXCEPT !.pc = "shell"] ELSE LoggedIn(t)

\* _login() from its second wait.
LoginPassword(t) ==
    IF ~t.passwordPromptReceived
    THEN [t EXCEPT !.pc = "password"]
    ELSE IF ~tnOpts.password
    THEN ConnectCatch(t, "AuthenticationRequired")
    ELSE LoginShell([t EXCEPT !.sent = Append(@, "password")])

\* _login() past its first wait.
LoginUser(t) ==
    IF ~t.loginPromptReceived
    THEN LoginPassword(t)
    ELSE IF ~tnOpts.user
    THEN ConnectCatch(t, "AuthenticationRequired")
    ELSE LoginPassword([t EXCEPT !.sent = Append(@, "user")])

\* _login()
Login(t) ==
    IF ~t.loginPromptReceived THEN [t EXCEPT !.pc = "login"] ELSE LoginUser(t)

\* _negotiateOptions() past its wait, and what connect() does next.
Negotiated(t) ==
    IF /\ t.current["clientSuppressGoAhead"] = "yes"
       /\ t.current["serverSuppressGoAhead"] = "yes"
    THEN Login([t EXCEPT !.optionsNegotiated = TRUE, !.checked = "enabled"])
    ELSE ConnectCatch([t EXCEPT !.checked = "refused"],
                      "SuppressGoAheadRefused")

\* _receiveData(): the matching of one line against the prompts.
MatchLine(t, line) ==
    CASE line = "login" /\ t.expectLoginPrompt ->
           [t EXCEPT !.expectLoginPrompt = FALSE,
                     !.loginPromptReceived = TRUE,
                     !.expectPasswordPrompt = TRUE]
      [] line = "password" /\ t.expectPasswordPrompt ->
           [t EXCEPT !.expectPasswordPrompt = FALSE,
                     !.passwordPromptReceived = TRUE]
      [] line = "shell" ->
           [t EXCEPT !.expectLoginPrompt = FALSE,
                     !.expectPasswordPrompt = FALSE,
                     !.shellPromptReceived = TRUE]
      [] OTHER -> t

\* The event a line makes _receiveData() emit.
EmittedBy(t, line) ==
    CASE line = "login" /\ t.expectLoginPrompt -> {"_login"}
      [] line = "password" /\ t.expectPasswordPrompt -> {"_password"}
      [] line = "shell" -> {"_prompt"}
      [] OTHER -> {}

\* _receiveData(): the loop over the lines of _recvBuf, which is matched
\* from its start at every call. The result is the client and the events
\* that were emitted.
RECURSIVE MatchFrom(_, _, _)
MatchFrom(t, lines, emitted) ==
    IF lines = <<>>
    THEN <<t, emitted>>
    ELSE MatchFrom(MatchLine(t, Head(lines)), Tail(lines),
                   emitted \cup EmittedBy(t, Head(lines)))

\* The wait of _login() that the emitted events end.
Resume(t, emitted) ==
    CASE t.pc = "login" /\ emitted \cap {"_login", "_prompt"} # {} ->
           LoginUser(t)
      [] t.pc = "password" /\ "_password" \in emitted -> LoginPassword(t)
      [] t.pc = "shell" /\ "_prompt" \in emitted -> LoggedIn(t)
      [] OTHER -> t

\* _receiveData(data) past _receiveCommands(): t is the client before the
\* call, t1 the client with the commands of `data` applied and its text
\* appended to _recvBuf.
ReceiveData(t, t1) ==
    LET m == MatchFrom(t1, t1.recvBuf, {})
    IN  IF ~t.optionsNegotiated
        THEN IF t1.pc = "negotiating" /\ ~NegotiatingOptions(t1)
             THEN Negotiated(t1)
             ELSE t1
        ELSE Resume(m[1], m[2])

TelnetInit ==
    /\ tnOpts \in TelnetOptions
    /\ tn = NewClient

\* connect(): the call up to await this._connectSocket().
Connect ==
    /\ tn.state = "disconnected"
    /\ tn.pc = "idle"
    /\ tn' = [tn EXCEPT
                !.desired =
                    [o \in Options |->
                        CASE o = "serverEcho" ->
                               IF tnOpts.enableEcho THEN "yes" ELSE "no"
                          [] o = "clientEcho" -> "no"
                          [] OTHER ->
                               IF tnOpts.suppressGoAhead
                               THEN "yes" ELSE "no"],
                !.state = "connecting",
                !.timer = TRUE,
                !.sock = "connecting",
                !.pc = "socket"]
    /\ UNCHANGED tnOpts
    /\ UNCHANGED notTelnet

\* The socket emits 'connect': _negotiateOptions() sends the options.
SocketConnects ==
    /\ tn.pc = "socket"
    /\ tn.sock = "connecting"
    /\ LET t1 == [tn EXCEPT
                    !.sock = "open",
                    !.current =
                        [o \in Options |->
                            SendOption(tn.current[o], tn.desired[o])]]
       IN  tn' = IF NegotiatingOptions(t1)
                 THEN [t1 EXCEPT !.pc = "negotiating"]
                 ELSE Negotiated(t1)
    /\ UNCHANGED tnOpts
    /\ UNCHANGED notTelnet

\* The socket emits 'error' and is destroyed.
SocketError ==
    /\ tn.sock \in {"connecting", "open"}
    /\ tn.state \in {"connecting", "connected"}
    /\ tn' = TelnetError([tn EXCEPT !.sock = "destroyed"], "SocketError")
    /\ UNCHANGED tnOpts
    /\ UNCHANGED notTelnet

\* The server closes the connection: the 'close' listener of onConnect.
SocketCloses ==
    /\ tn.sock = "open"
    /\ tn.state \in {"connecting", "connected"}
    /\ tn' = TelnetError([tn EXCEPT !.sock = "destroyed"], "ServerClosed")
    /\ UNCHANGED tnOpts
    /\ UNCHANGED notTelnet

\* The connect timer fires.
ConnectTimeout ==
    /\ tn.timer
    /\ tn' = TelnetError([tn EXCEPT !.timer = FALSE], "ConnectionTimeout")
    /\ UNCHANGED tnOpts
    /\ UNCHANGED notTelnet

\* The socket emits 'data' with an option command.
DataCommand ==
    /\ tn.sock = "open"
    /\ tn.state \in {"connecting", "connected"}
    /\ \E c \in Commands :
          tn' = ReceiveData(tn, ReceiveOption(tn, c))
    /\ UNCHANGED tnOpts
    /\ UNCHANGED notTelnet

\* The socket emits 'data' with a line.
DataLine ==
    /\ tn.sock = "open"
    /\ tn.state \in {"connecting", "connected"}
    /\ Len(tn.recvBuf) < MaxLines
    /\ \E line \in Prompts :
          tn' = ReceiveData(tn, [tn EXCEPT !.recvBuf = Append(@, line)])
    /\ UNCHANGED tnOpts
    /\ UNCHANGED notTelnet

\* The user calls disconnect().
CallDisconnect ==
    /\ tn.calls < MaxDisconnects
    /\ tn' = [Disconnect(tn) EXCEPT !.calls = @ + 1]
    /\ UNCHANGED tnOpts
    /\ UNCHANGED notTelnet

\* _disconnectSocket() ends, by the 'close' of the socket or by its timer:
\* disconnect() calls setImmediate() and returns, and a connect() that
\* awaited _error() throws.
SocketDisconnected ==
    /\ tn.disc = "socket"
    /\ LET t1 == [tn EXCEPT !.sock = "destroyed", !.disc = "immediate"]
       IN  tn' = IF tn.pc = "failing" THEN Throw(t1, tn.err) ELSE t1
    /\ UNCHANGED tnOpts
    /\ UNCHANGED notTelnet

\* The callback of setImmediate(): _resetState() and the DISCONNECTED
\* event, which ends the calls of disconnect() that joined.
Disconnected ==
    /\ tn.disc = "immediate"
    /\ tn' = [ResetState(tn) EXCEPT !.disc = "none", !.joiners = 0]
    /\ UNCHANGED tnOpts
    /\ UNCHANGED notTelnet

TelnetNext ==
    \/ Connect
    \/ SocketConnects
    \/ SocketError
    \/ SocketCloses
    \/ ConnectTimeout
    \/ DataCommand
    \/ DataLine
    \/ CallDisconnect
    \/ SocketDisconnected
    \/ Disconnected

TelnetIdle ==
    /\ tnOpts = [enableEcho |-> TRUE, suppressGoAhead |-> TRUE,
                 user |-> FALSE, password |-> FALSE, errorListener |-> TRUE]
    /\ tn = NewClient

(***************************************************************************)
(* ModuleCache._findMissingBinaries() from the end of its check of the     *)
(* bundled binaries on, and _listOlderReleaseVersions().  A version string *)
(* is a record: rank is its place in the precedence order of semver (0 for *)
(* a string that is no version), build its build metadata, which semver    *)
(* ignores when it compares.  A tag is a version string with or without a  *)
(* leading 'v'.                                                            *)
(***************************************************************************)
MAX_OLDER_RELEASES_TO_CHECK == 20

Ver(rank, build) == [rank |-> rank, build |-> build]
Tag(v, rank, build) == [v |-> v, rank |-> rank, build |-> build]

\* if (ver.startsWith('v')) { ver = ver.slice(1); }
StripV(tag) == Ver(tag.rank, tag.build)

\* semver.valid(ver), semver.lt(a, b), semver.compare(a, b) <= 0
Valid(ver) == ver.rank # 0
Lt(a, b) == a.rank < b.rank
Lte(a, b) == a.rank <= b.rank

\* versions.add(ver) for the releases of one page: a Set keeps a string
\* once, at the place of its first insertion.
RECURSIVE AddPage(_, _, _)
AddPage(seen, releases, i) ==
    IF i > Len(releases) THEN seen
    ELSE LET ver == StripV(releases[i])
         IN  IF Valid(ver) /\ \A k \in DOMAIN seen : seen[k] # ver
             THEN AddPage(Append(seen, ver), releases, i + 1)
             ELSE AddPage(seen, releases, i + 1)

\* versions.sort(semver.compare): a stable sort into ascending order.
RECURSIVE InsertSorted(_, _)
InsertSorted(sorted, x) ==
    IF sorted = <<>> THEN <<x>>
    ELSE IF Lte(sorted[Len(sorted)], x)
         THEN Append(sorted, x)
         ELSE Append(InsertSorted(SubSeq(sorted, 1, Len(sorted) - 1), x),
                     sorted[Len(sorted)])

RECURSIVE SortCompare(_, _)
SortCompare(xs, i) ==
    IF i = 0 THEN <<>> ELSE InsertSorted(SortCompare(xs, i - 1), xs[i])

Reverse(xs) == [i \in 1..Len(xs) |-> xs[Len(xs) + 1 - i]]

\* versions.filter(v => semver.lt(v, version))
OlderThan(a, version) == Lt(a, version)

\* The value _listOlderReleaseVersions(version) returns for the versions seen.
listOlderReleaseVersions(seen, version) ==
    LET older == SelectSeq(seen, LAMBDA a : OlderThan(a, version))
    IN  Reverse(SortCompare(older, Len(older)))

\* versions.slice(0, MAX_OLDER_RELEASES_TO_CHECK)
SliceAll(xs) == xs
Slice(xs) ==
    IF Len(xs) > MAX_OLDER_RELEASES_TO_CHECK
    THEN SubSeq(xs, 1, MAX_OLDER_RELEASES_TO_CHECK)
    ELSE xs

\* A page of releases as listReleases() returns it: one release, or a long
\* page with more releases than are ever probed.
LongPage ==
    [i \in 1..(MAX_OLDER_RELEASES_TO_CHECK + 2) |->
        Tag(TRUE, MAX_OLDER_RELEASES_TO_CHECK + 3 - i, 0)]
ReleasePages ==
    {<<Tag(TRUE, 1, 0)>>, <<Tag(FALSE, 1, 0)>>, <<Tag(TRUE, 1, 1)>>,
     <<Tag(TRUE, 2, 0)>>, <<Tag(TRUE, 3, 0)>>, <<Tag(TRUE, 0, 0)>>,
     LongPage}

\* The modules that can be missing when the bundled binaries were checked.
CanMiss ==
    {<<6, "user_part">>, <<6, "bootloader">>, <<12, "user_part">>,
     <<12, "ncp_firmware">>}

OlderInit ==
    /\ olVersion \in {Ver(2, 0), Ver(MAX_OLDER_RELEASES_TO_CHECK + 3, 0)}
    /\ olMissing \in SUBSET CanMiss
    /\ olPc = "start"
    /\ olSeen = <<>> /\ olPage = 0
    /\ olVersions = <<>> /\ olIdx = 0
    /\ olProbed = <<>> /\ olLists = 0

\* for (const ver of versions): the loop takes the i-th version, or ends.
ProbeFrom(i, versions) ==
    IF i > Len(versions)
    THEN /\ olPc' = "done"
         /\ UNCHANGED <<olIdx, olProbed>>
    ELSE /\ olPc' = "probe"
         /\ olIdx' = i
         /\ olProbed' = Append(olProbed, versions[i])

\* Radio stack and NCP firmware are taken off the missing modules, and the
\* older releases are listed if a module is still missing.
CheckOlder ==
    /\ olPc = "start"
    /\ olMissing' = NeverPublished(olMissing)
    /\ IF olMissing' = {}
       THEN /\ olPc' = "done"
            /\ UNCHANGED <<olPage, olLists>>
       ELSE /\ olPc' = "list"
            /\ olPage' = 1
            /\ olLists' = olLists + 1
    /\ UNCHANGED <<olVersion, olSeen, olVersions, olIdx, olProbed>>
    /\ UNCHANGED notOlder

\* listReleases({ page }) has settled: with a page of releases, with an
\* empty page, after which the versions are filtered, sorted and cut and
\* the first of them is probed, or with an error.
ListedPage ==
    /\ olPc = "list"
    /\ \/ /\ olPage <= MaxTagPages
          /\ \E releases \in ReleasePages :
                olSeen' = AddPage(olSeen, releases, 1)
          /\ olPage' = olPage + 1
          /\ olLists' = olLists + 1
          /\ UNCHANGED <<olPc, olVersions, olIdx, olProbed>>
       \/ /\ olVersions' = Slice(listOlderReleaseVersions(olSeen, olVersion))
          /\ ProbeFrom(1, olVersions')
          /\ UNCHANGED <<olSeen, olPage, olLists>>
       \/ /\ olPc' = "failed"
          /\ UNCHANGED <<olSeen, olPage, olLists, olVersions, olIdx,
                         olProbed>>
    /\ UNCHANGED <<olVersion, olMissing>>
    /\ UNCHANGED notOlder

\* if (!missingModules.size) { break; }
Breaks(miss) == miss = {}

\* _downloadRelease(ver) has settled: with the binaries of the release,
\* which are taken for the modules that are missing, or with an error.
ProbedRelease ==
    /\ olPc = "probe"
    /\ \/ \E files \in SideLists(OlderBins) :
            LET s == Backfill([miss |-> olMissing, add |-> <<>>],
                              ParseModuleBinaries(files), 1, TRUE)
            IN  /\ files # <<>>
                /\ olMissing' = s.miss
                /\ IF Breaks(s.miss)
                   THEN olPc' = "done" /\ UNCHANGED <<olIdx, olProbed>>
                   ELSE ProbeFrom(olIdx + 1, olVersions)
       \/ /\ olPc' = "failed"
          /\ UNCHANGED <<olMissing, olIdx, olProbed>>
    /\ UNCHANGED <<olVersion, olSeen, olPage, olVersions, olLists>>
    /\ UNCHANGED notOlder

OlderNext ==
    \/ CheckOlder
    \/ ListedPage
    \/ ProbedRelease

OlderIdle ==
    /\ olVersion = Ver(0, 0)
    /\ olMissing = {}
    /\ olPc = "idle"
    /\ olSeen = <<>> /\ olPage = 0
    /\ olVersions = <<>> /\ olIdx = 0
    /\ olProbed = <<>> /\ olLists = 0

(***************************************************************************)
(* TelnetClient: the negotiation of options on one connection after the    *)
(* other.  ng holds currentState and desiredState of the four TelnetOption *)
(* objects; the peer sends any command for ECHO, SUPPRESS-GO-AHEAD or an   *)
(* option the client does not know.                                        *)
(***************************************************************************)
NoCommand == [cmd |-> "none", opt |-> "none"]

AnyCommands ==
    [cmd : {"WILL", "WONT", "DO", "DONT"}, opt : {"ECHO", "SGA", "OTHER"}]

\* What the client answers to agree to, and to refuse, what cmd asks for.
Accepting(cmd) == IF cmd \in {"WILL", "WONT"} THEN "DO" ELSE "WILL"
Refusing(cmd) == IF cmd \in {"WILL", "WONT"} THEN "DONT" ELSE "WONT"

\* _receiveOption(): the command it passes to _sendCommand(), "none" when
\* it sends nothing.
SendsAlways(current, desired, c) ==
    IF c.cmd \in {"WILL", "DO"} THEN Accepting(c.cmd) ELSE Refusing(c.cmd)
Sends(current, desired, c) ==
    IF ~Supported(c)
    THEN IF c.cmd \in {"WILL", "DO"} THEN Refusing(c.cmd) ELSE "none"
    ELSE IF c.cmd \in {"WILL", "DO"}
    THEN CASE current = "no" ->
                IF desired = "yes" THEN Accepting(c.cmd) ELSE Refusing(c.cmd)
           [] current = "want_yes_opposite" -> Refusing(c.cmd)
           [] OTHER -> "none"
    ELSE CASE current = "yes" -> Refusing(c.cmd)
           [] current = "want_no_opposite" -> Accepting(c.cmd)
           [] OTHER -> "none"

\* connect(): the desired states for the options of the call.
Desired(enableEcho, suppressGoAhead) ==
    [o \in Options |->
        IF \/ o = "serverEcho" /\ enableEcho
           \/ o \in {"clientSuppressGoAhead", "serverSuppressGoAhead"}
                /\ suppressGoAhead
        THEN "yes" ELSE "no"]

\* _sendOptions(): the commands it writes, client options first.
OptionOrder ==
    <<"clientEcho", "clientSuppressGoAhead",
      "serverEcho", "serverSuppressGoAhead">>

SendOptionWrites(o, current, desired) ==
    LET code == IF o \in {"clientEcho", "serverEcho"} THEN "ECHO" ELSE "SGA"
        client == o \in {"clientEcho", "clientSuppressGoAhead"}
    IN  IF desired = "yes" /\ current = "no"
        THEN <<[cmd |-> IF client THEN "WILL" ELSE "DO", opt |-> code]>>
        ELSE IF desired = "no" /\ current = "yes"
        THEN <<[cmd |-> IF client THEN "WONT" ELSE "DONT", opt |-> code]>>
        ELSE <<>>

RECURSIVE SendOptionsWrites(_, _, _)
SendOptionsWrites(current, desired, i) ==
    IF i > Len(OptionOrder) THEN <<>>
    ELSE SendOptionWrites(OptionOrder[i], current[OptionOrder[i]],
                          desired[OptionOrder[i]])
         \o SendOptionsWrites(current, desired, i + 1)

AllNo == [o \in Options |-> "no"]

OptionsInit ==
    /\ ng = [current |-> AllNo, desired |-> AllNo]
    /\ ngOpen = FALSE
    /\ ngCmd = NoCommand
    /\ ngSent = <<>>
    /\ ngLast = [o \in Options |-> "none"]

\* connect() up to the end of _sendOptions().
OptionsConnect ==
    /\ ~ngOpen
    /\ ngOpen' = TRUE
    /\ \E enableEcho, suppressGoAhead \in BOOLEAN :
         LET desired == Desired(enableEcho, suppressGoAhead)
         IN  /\ ng' = [current |->
                          [o \in Options |->
                              SendOption(ng.current[o], desired[o])],
                       desired |-> desired]
             /\ ngSent' = SendOptionsWrites(ng.current, desired, 1)
    /\ ngCmd' = NoCommand
    /\ UNCHANGED ngLast
    /\ UNCHANGED notOptions

\* _receiveCommands() has found IAC cmd opt in the data: _receiveOption().
OptionsReceive(c) ==
    /\ ngOpen
    /\ ng' = ReceiveOption(ng, c)
    /\ ngCmd' = c
    /\ ngSent' = LET s == IF Supported(c)
                          THEN Sends(ng.current[OptionOf(c)],
                                     ng.desired[OptionOf(c)], c)
                          ELSE Sends("no", "no", c)
                 IN  IF s = "none" THEN <<>>
                     ELSE <<[cmd |-> s, opt |-> c.opt]>>
    /\ ngLast' = IF Supported(c)
                 THEN [ngLast EXCEPT ![OptionOf(c)] =
                          IF c.cmd \in {"WILL", "DO"} THEN "agreed"
                          ELSE "refused"]
                 ELSE ngLast
    /\ UNCHANGED ngOpen
    /\ UNCHANGED notOptions

\* The connection ends: _resetState().
OptionsReset ==
    /\ ngOpen
    /\ ngOpen' = FALSE
    /\ ng' = [current |-> AllNo, desired |-> AllNo]
    /\ ngCmd' = NoCommand
    /\ ngSent' = <<>>
    /\ ngLast' = [o \in Options |-> "none"]
    /\ UNCHANGED notOptions

OptionsNext ==
    \/ OptionsConnect
    \/ \E c \in AnyCommands : OptionsReceive(c)
    \/ OptionsReset

OptionsIdle ==
    /\ ng = [current |-> AllNo, desired |-> AllNo]
    /\ ngOpen = FALSE
    /\ ngCmd = NoCommand
    /\ ngSent = <<>>
    /\ ngLast = [o \in Options |-> "none"]

(***************************************************************************)
(* TelnetClient: the bytes of one connection as the socket delivers them,  *)
(* in 'data' events of any sizes.  A byte is IAC, a command byte that      *)
(* takes an option (DO stands for WILL, WONT, DO and DONT), a command byte *)
(* that takes none (NOP), the option code of ECHO, a letter, LF or CR.     *)
(* No line of such bytes matches a prompt, so the matching loop emits each *)
(* line it is given as a 'line' event.                                     *)
(***************************************************************************)
Bytes == {"IAC", "DO", "NOP", "ECHO", "a", "LF", "CR"}

\* cmd >= Command.WILL && cmd <= Command.DONT
TakesOption(cmd) == cmd = "DO"

\* buf.indexOf(b, offs), on indices from 1; 0 when there is none.
IndexOf(buf, b, offs) ==
    IF \E i \in offs..Len(buf) : buf[i] = b
    THEN CHOOSE i \in offs..Len(buf) :
            buf[i] = b /\ \A j \in offs..(i - 1) : buf[j] # b
    ELSE 0

\* Buffer.concat([buf.slice(0, offs), buf.slice(offs + size)])
Cut(buf, offs, size) ==
    SubSeq(buf, 1, offs - 1) \o SubSeq(buf, offs + size, Len(buf))

\* _receiveCommands(): the buffer it leaves, the commands it has passed to
\* _receiveOption(), and what it returns (false: read more).
RECURSIVE ReceiveCommands(_, _, _)
ReceiveCommands(buf, from, applied) ==
    LET offs == IndexOf(buf, "IAC", from)
    IN  IF offs = 0
        THEN [buf |-> buf, applied |-> applied, done |-> TRUE]
        ELSE IF offs + 1 > Len(buf)
        THEN [buf |-> buf, applied |-> applied, done |-> FALSE]
        ELSE IF ~TakesOption(buf[offs + 1])
        THEN ReceiveCommands(Cut(buf, offs, 2), offs, applied)
        ELSE IF offs + 2 > Len(buf)
        THEN [buf |-> buf, applied |-> applied, done |-> FALSE]
        ELSE ReceiveCommands(Cut(buf, offs, 3), offs,
                             Append(applied, <<buf[offs + 1], buf[offs + 2]>>))

\* this._recvBuf.filter(b => b != 0x00 && b != 0x0d)
FilterCr(buf) == SelectSeq(buf, LAMBDA b : b # "CR")

\* splitBuffer(buf, 0x0a)
RECURSIVE splitBuffer(_, _)
splitBuffer(buf, sep) ==
    LET pos == IndexOf(buf, sep, 1)
    IN  IF pos = 0
        THEN <<buf>>
        ELSE <<SubSeq(buf, 1, pos - 1)>>
                \o splitBuffer(SubSeq(buf, pos + 1, Len(buf)), sep)

\* The lines the loop of _receiveData() goes through: the n-th split of
\* the buffer is line n of the text received, complete when an LF ends it.
Lines(buf) ==
    LET splits == splitBuffer(buf, "LF")
    IN  [n \in 1..Len(splits) |->
            [n |-> n, text |-> splits[n], complete |-> n < Len(splits)]]

ReceiveInit ==
    /\ rxStream \in UNION {[1..n -> Bytes] : n \in 1..MaxStream}
    /\ rxSent = 0
    /\ rxBuf = <<>>
    /\ rxNegotiated \in BOOLEAN
    /\ rxApplied = <<>>
    /\ rxReports = <<>>

\* The socket emits 'data' with the next k bytes: _receiveData(data).
DataReceived ==
    /\ \E k \in 1..(Len(rxStream) - rxSent) :
         LET data == SubSeq(rxStream, rxSent + 1, rxSent + k)
             r == ReceiveCommands(rxBuf \o data, 1, rxApplied)
         IN  /\ rxSent' = rxSent + k
             /\ rxApplied' = r.applied
             /\ IF r.done /\ rxNegotiated
                THEN /\ rxBuf' = FilterCr(r.buf)
                     /\ rxReports' = rxReports \o Lines(FilterCr(r.buf))
                ELSE /\ rxBuf' = r.buf
                     /\ UNCHANGED rxReports
    /\ UNCHANGED <<rxStream, rxNegotiated>>
    /\ UNCHANGED notReceive

\* _negotiateOptions() resumes after the negotiation:
\* this._optionsNegotiated = true
OptionsNegotiated ==
    /\ ~rxNegotiated
    /\ rxNegotiated' = TRUE
    /\ UNCHANGED <<rxStream, rxSent, rxBuf, rxApplied, rxReports>>
    /\ UNCHANGED notReceive

ReceiveNext == DataReceived \/ OptionsNegotiated

ReceiveIdle ==
    /\ rxStream = <<>> /\ rxSent = 0 /\ rxBuf = <<>>
    /\ rxNegotiated = FALSE
    /\ rxApplied = <<>> /\ rxReports = <<>>

(***************************************************************************)
(* Specifications                                                          *)
(***************************************************************************)
InitFlasher == FlasherInit /\ AppIdle /\ OcdIdle /\ ParseIdle /\ CacheIdle /\ StartupIdle
    /\ TargetsIdle /\ EnumerateIdle /\ StorageIdle /\ TelnetIdle /\ OlderIdle
    /\ OptionsIdle /\ ReceiveIdle
SpecFlasher == InitFlasher /\ [][FlasherNext]_vars

\* Every awaited device operation returns or throws: the step that follows
\* the await is taken.
InitFlasherArgs == FlasherArgsInit /\ AppIdle /\ OcdIdle /\ ParseIdle /\ CacheIdle
    /\ StartupIdle /\ TargetsIdle /\ EnumerateIdle /\ StorageIdle /\ TelnetIdle
    /\ OlderIdle /\ OptionsIdle /\ ReceiveIdle
SpecFlasherFair == InitFlasherArgs /\ [][FlasherNext]_vars /\ WF_vars(FlasherNext)

InitApp == AppInit /\ FlasherIdle /\ OcdIdle /\ ParseIdle /\ CacheIdle /\ StartupIdle
    /\ TargetsIdle /\ EnumerateIdle /\ StorageIdle /\ TelnetIdle /\ OlderIdle
    /\ OptionsIdle /\ ReceiveIdle
SpecApp == InitApp /\ [][AppNext]_vars

InitOcd ==
    OcdInit /\ DeviceUnused /\ FlasherIdle /\ AppIdle /\ ParseIdle /\ CacheIdle /\ StartupIdle
    /\ TargetsIdle /\ EnumerateIdle /\ StorageIdle /\ TelnetIdle /\ OlderIdle
    /\ OptionsIdle /\ ReceiveIdle
SpecOcd == InitOcd /\ [][OcdNext]_vars

InitOcdDevice ==
    OcdDeviceInit /\ FlasherIdle /\ AppIdle /\ ParseIdle /\ CacheIdle /\ StartupIdle
    /\ TargetsIdle /\ EnumerateIdle /\ StorageIdle /\ TelnetIdle /\ OlderIdle
    /\ OptionsIdle /\ ReceiveIdle
SpecOcdDevice == InitOcdDevice /\ [][OcdDeviceNext]_vars

InitParse == ParseInit /\ FlasherIdle /\ AppIdle /\ OcdIdle /\ CacheIdle /\ StartupIdle
    /\ TargetsIdle /\ EnumerateIdle /\ StorageIdle /\ TelnetIdle /\ OlderIdle
    /\ OptionsIdle /\ ReceiveIdle
SpecParse == InitParse /\ [][ParseNext]_vars

InitCache == CacheInit /\ FlasherIdle /\ AppIdle /\ OcdIdle /\ ParseIdle /\ StartupIdle
    /\ TargetsIdle /\ EnumerateIdle /\ StorageIdle /\ TelnetIdle /\ OlderIdle
    /\ OptionsIdle /\ ReceiveIdle
SpecCache == InitCache /\ [][CacheNext]_vars

InitStartup ==
    StartupInit /\ FlasherIdle /\ AppIdle /\ OcdIdle /\ ParseIdle /\ CacheIdle
    /\ TargetsIdle /\ EnumerateIdle /\ StorageIdle /\ TelnetIdle /\ OlderIdle
    /\ OptionsIdle /\ ReceiveIdle
SpecStartup == InitStartup /\ [][StartupNext]_vars

InitTargets ==
    /\ TargetsInit
    /\ FlasherIdle /\ AppIdle /\ OcdIdle /\ ParseIdle /\ CacheIdle
    /\ StartupIdle /\ EnumerateIdle /\ StorageIdle /\ TelnetIdle /\ OlderIdle
    /\ OptionsIdle /\ ReceiveIdle
SpecTargets == InitTargets /\ [][TargetsNext]_vars

InitEnumerate ==
    /\ EnumerateInit
    /\ StartupIdle /\ TargetsIdle /\ AppIdle /\ OcdIdle /\ ParseIdle
    /\ CacheIdle /\ FlasherIdle /\ StorageIdle /\ TelnetIdle /\ OlderIdle
    /\ OptionsIdle /\ ReceiveIdle
SpecEnumerate == InitEnumerate /\ [][EnumerateNext]_vars

InitStorage ==
    /\ StorageInit
    /\ StartupIdle /\ TargetsIdle /\ EnumerateIdle /\ AppIdle /\ OcdIdle
    /\ ParseIdle /\ CacheIdle /\ FlasherIdle /\ TelnetIdle /\ OlderIdle
    /\ OptionsIdle /\ ReceiveIdle
SpecStorage == InitStorage /\ [][StorageNext]_vars

InitTelnet ==
    /\ TelnetInit
    /\ StartupIdle /\ TargetsIdle /\ EnumerateIdle /\ StorageIdle /\ AppIdle
    /\ OcdIdle /\ ParseIdle /\ CacheIdle /\ FlasherIdle /\ OlderIdle
    /\ OptionsIdle /\ ReceiveIdle
SpecTelnet == InitTelnet /\ [][TelnetNext]_vars

InitOlder ==
    /\ OlderInit
    /\ StartupIdle /\ TargetsIdle /\ EnumerateIdle /\ StorageIdle
    /\ TelnetIdle /\ AppIdle /\ OcdIdle /\ ParseIdle /\ CacheIdle
    /\ FlasherIdle /\ OptionsIdle /\ ReceiveIdle
SpecOlder == InitOlder /\ [][OlderNext]_vars

InitOptions ==
    /\ OptionsInit
    /\ StartupIdle /\ TargetsIdle /\ EnumerateIdle /\ StorageIdle
    /\ TelnetIdle /\ OlderIdle /\ AppIdle /\ OcdIdle /\ ParseIdle /\ CacheIdle
    /\ FlasherIdle /\ ReceiveIdle
SpecOptions == InitOptions /\ [][OptionsNext]_vars

InitReceive ==
    /\ ReceiveInit
    /\ StartupIdle /\ TargetsIdle /\ EnumerateIdle /\ StorageIdle
    /\ TelnetIdle /\ OlderIdle /\ OptionsIdle /\ AppIdle /\ OcdIdle
    /\ ParseIdle /\ CacheIdle /\ FlasherIdle
SpecReceive == InitReceive /\ [][ReceiveNext]_vars

(***************************************************************************)
(* Claims about the Flasher                                                *)
(***************************************************************************)
IsPrefix(s, t) == Len(s) <= Len(t) /\ SubSeq(t, 1, Len(s)) = s

\* The direct modules that the encrypted-module policy lets through.
NotSkipped(ms) == SelectSeq(ms, LAMBDA k : ~MustSkip(k))

\* C1: no update-request write (flashModule) is attempted until every
\* direct module has been written and the reset that ends the direct phase
\* has succeeded.
C1_DirectPhaseCompletesBeforeOta ==
    otaAttempted =>
        /\ SeqRange(flashModules) \subseteq SeqRange(wroteFlash)
        /\ flashModules # <<>> => resetsOk >= 1

\* C2 as stated: in each partition the successful writes are exactly the
\* partition's modules, in input order, each written once.
C2_WritesAreThePartition ==
    /\ IsPrefix(wroteFlash, flashModules)
    /\ IsPrefix(wroteOta, otaModules)
    /\ flPc = "done" => wroteFlash = flashModules /\ wroteOta = otaModules

\* C2 as amended: the successful direct writes are the direct modules that
\* the encrypted-module policy does not skip, in input order and each once;
\* the successful update-request writes are exactly the OTA modules in input
\* order, each once; whatever the failures and retries.
C2_WritesAreTheUnskippedPartition ==
    /\ IsPrefix(wroteFlash, NotSkipped(flashModules))
    /\ IsPrefix(wroteOta, otaModules)
    /\ flPc = "done" =>
          /\ wroteFlash = NotSkipped(flashModules)
          /\ wroteOta = otaModules

\* C2 witness: a run that was retried in both phases and ended well after
\* several direct writes and an update-request write.
C2_Witness ==
    /\ flPc = "done"
    /\ failures >= 2
    /\ Len(wroteFlash) >= 2
    /\ Len(wroteOta) >= 1
    /\ retriesLeft = 0

\* C3: every exception first closes the open device handle, is retried if
\* and only if retries are left, and run() throws at failure number
\* maxRetries + 1 and not before.
C3_ExceptionClosesAndRetries ==
    /\ failures <= maxRetries + 1
    /\ flPc = "failed" => failures = maxRetries + 1 /\ retriesLeft = 0
    /\ flPc \in {"failed", "fm_open", "um_open"} => ~hOpen /\ ~dev

(***************************************************************************)
(* Claims about dispatch and downloads                                     *)
(***************************************************************************)
\* C4: a failed Flasher does not stop the others; when _flashDevices
\* returns or throws every Flasher has run to a terminal state; it throws
\* the error that was captured first in time, and returns normally exactly
\* when no Flasher failed.
C4_DispatchOutcome ==
    /\ appPc \in {"returned", "thrown"} =>
          SettledJobs(flashers) = DOMAIN flashers
    /\ appPc = "thrown" => failOrder # <<>> /\ error = Head(failOrder)
    /\ appPc = "returned" => failOrder = <<>> /\ error = 0
    /\ FailedJobs(flashers) = SeqRange(failOrder)

\* C4 witness: with one job at a time the first device failed first, two
\* devices failed in all, another one still succeeded, and the dispatch
\* has thrown.
C4_Witness ==
    /\ appPc = "thrown"
    /\ maxJobs = 1
    /\ Len(failOrder) >= 2
    /\ failOrder[1] = 1
    /\ \E d \in DOMAIN flashers : flashers[d] \in {"ok", "ok*"}

\* A queued Flasher starts only in the step in which a finished one
\* releases its slot.
StartsOnlyOnRelease ==
    \A d \in DOMAIN flashers :
        (flashers[d] = "queued" /\ flashers'[d] = "running") =>
            \E e \in DOMAIN flashers :
                /\ flashers[e] \in {"ok*", "failed*"}
                /\ flashers'[e] \in {"ok", "failed"}

\* C5: never more than maxJobs Flasher.run() calls in progress, a queued
\* Flasher starts only when a running one has finished, and never more
\* than 6 downloads of a release in flight.
C5_BoundedParallelism ==
    /\ [](/\ maxJobs # Infinity =>
               Cardinality(RunningJobs(flashers)) <= maxJobs
          /\ dlRunning <= MAX_CONCURRENT_DOWNLOADS
          /\ dlPeak <= MAX_CONCURRENT_DOWNLOADS)
    /\ [][DOMAIN flashers = DOMAIN flashers' => StartsOnlyOnRelease]_vars

\* C5 witness: more assets than download slots were fetched with all six
\* slots in use, and with maxJobs = 2 both slots are taken, one of them by
\* a Flasher that had to wait for another one to finish.
C5_Witness ==
    /\ appPc = "flashing"
    /\ dlPeak = MAX_CONCURRENT_DOWNLOADS
    /\ dlDone > MAX_CONCURRENT_DOWNLOADS
    /\ maxJobs = 2
    /\ Cardinality(RunningJobs(flashers)) = 2
    /\ \E d \in DOMAIN flashers : flashers[d] \in {"ok", "failed"}

(***************************************************************************)
(* Claims about the OpenOCD driver and device                              *)
(***************************************************************************)
\* C6: whenever OpenOcdDevice.close() has returned or thrown, the daemon
\* process started for the device has exited.
C6_CloseLeavesNoDaemon ==
    closeDone \in {"returned", "threw"} => ~ocd.procAlive /\ ~ocd.orphan

\* C7: at most one command is in flight on the driver's connection.
C7_OneCommandInFlight ==
    Cardinality(ocd.cmds \ ocd.dead) <= 1

(***************************************************************************)
(* Claims about the module cache                                           *)
(***************************************************************************)
ModuleKey(m) == <<m.platformId, m.type, m.index>>

\* C8: the list that getReleaseModules() returns has no two modules with
\* the same (platformId, type, index), whether it comes from the cache or
\* from a download with backfill from the bundled binaries and from older
\* releases.
C8_UniqueKeys ==
    gcPc = "done" =>
        \A i, j \in DOMAIN result :
            i # j => ModuleKey(result[i]) # ModuleKey(result[j])

\* C8 witness: a returned list of a release whose download held a second
\* binary for a key, completed with a bundled binary and with a binary of
\* an older release.
C8_Witness ==
    /\ gcPc = "done"
    /\ Len(relFiles) > Len(mods)
    /\ \A i \in DOMAIN relFiles : relFiles[i].valid
    /\ \E i \in DOMAIN result : result[i].isAsset
    /\ \E i \in DOMAIN added : ~added[i].isAsset
    /\ Len(result) >= 3

\* The user part is a Tinker by its file name.
NamedTinker(m) == m.type = "user_part" /\ basename(m.file) = "tinker"

\* a wins over b by the tie-breaks in their order.
Beats(a, b) ==
    IF NamedTinker(a) # NamedTinker(b) THEN NamedTinker(a)
    ELSE IF a.version # b.version THEN a.version > b.version
    ELSE a.fileSize < b.fileSize

\* C9: of the parsed binaries with one key the survivor is the one chosen
\* by the ordered tie-breaks: a user part with 'tinker' in its file name
\* before one without, then the higher version, then the smaller file.
C9_TieBreaks ==
    \A i \in 1..(pIdx - 1) :
        pFiles[i].valid =>
            \E k \in DOMAIN pModules :
                /\ Key(pModules[k]) = Key(pFiles[i])
                /\ ~Beats(pFiles[i], pModules[k])

\* The case in which getReleaseModules() answers from the cache.
CacheHit ==
    ~noCache /\ cacheExists /\ ParseModuleBinaries(cacheFiles) # <<>>

\* C10: with noCache false, the release directory present and at least one
\* module parsed from it, getReleaseModules() returns exactly the modules
\* parsed from the cache, sends no request and leaves the cache as it is.
C10_FastPath ==
    [][(gcPc = "start" /\ CacheHit) =>
          /\ gcPc' = "done"
          /\ result' = ParseModuleBinaries(cacheFiles)
          /\ requests' = 0
          /\ writes' = 0
          /\ cacheExists' = cacheExists
          /\ cacheFiles' = cacheFiles]_vars

\* C10 witness: a call that returned from a cache directory which
\* also holds a file that is no module.
C10_Witness ==
    /\ gcPc = "done"
    /\ CacheHit
    /\ requests = 0
    /\ Len(result) >= 1
    /\ Len(cacheFiles) > Len(result)

(***************************************************************************)
(* C11: the lookup of a release asks for tag 'v<version>' first, for tag   *)
(* '<version>' only after the first answer was 404, and pages through the  *)
(* list of releases only after both answers were 404 and draft is set; it  *)
(* fails with 'Release not found' exactly when it has ended and no step    *)
(* gave a release; an answer that is another error ends the lookup and is  *)
(* the error thrown.                                                       *)
(***************************************************************************)
LookupEndedEmpty ==
    /\ lookup # <<>>
    /\ \/ lookup[Len(lookup)] = <<"tag_plain", "404">> /\ ~draft
       \/ lookup[Len(lookup)] = <<"list", "empty">>

C11_LookupOrder ==
    /\ \A i \in DOMAIN lookup :
         /\ lookup[i][1] = "tag_v" <=> i = 1
         /\ lookup[i][1] = "tag_plain" => i = 2 /\ lookup[1][2] = "404"
         /\ lookup[i][1] = "list" =>
                /\ i >= 3 /\ draft
                /\ lookup[1] = <<"tag_v", "404">>
                /\ lookup[2] = <<"tag_plain", "404">>
         /\ lookup[i][2] \in {"found", "error", "empty"} => i = Len(lookup)
         /\ lookup[i][2] = "error" =>
                gcPc = "failed" /\ gcError = "RequestError"
    /\ gcError = "ReleaseNotFound" <=> gcPc = "failed" /\ LookupEndedEmpty

\* C11 witness: no release under either tag, a page of releases without
\* the draft, then an empty page.
C11_Witness ==
    /\ gcError = "ReleaseNotFound"
    /\ Len(lookup) >= 4
    /\ lookup[3] = <<"list", "no_match">>

(***************************************************************************)
(* C12: when the release that was located is a draft, getReleaseModules()  *)
(* leaves the release directory of the cache as it was, neither cleared    *)
(* nor written, and the modules it returns keep file paths outside the     *)
(* cache directory.                                                        *)
(***************************************************************************)
InCacheDir(file) == file[1] \in {platformName(id) : id \in PlatformIds}

C12_DraftNotCached ==
    /\ [](gcPc = "done" /\ relDraft =>
            /\ writes = 0
            /\ \A i \in DOMAIN result : ~InCacheDir(result[i].file))
    /\ [][(cacheFiles' # cacheFiles \/ cacheExists' # cacheExists) =>
            gcPc' \in {"done", "failed"} /\ ~relDraft']_vars

\* C12 witness: a draft was fetched although the release directory exists
\* and holds files, and a bundled binary is among the modules returned.
C12_Witness ==
    /\ gcPc = "done" /\ relDraft
    /\ cacheExists /\ cacheFiles # <<>>
    /\ Len(result) >= 2
    /\ \E i \in DOMAIN result : result[i].isAsset

(***************************************************************************)
(* C13: when getReleaseModules() returns after it has downloaded a release *)
(* that is no draft, the files of the release directory of the cache are   *)
(* exactly the files of the returned modules: every returned module has    *)
(* its own binary there, under the directory named after its platform,     *)
(* there is no other file, and no file belongs to two modules.             *)
(***************************************************************************)
C13_CacheHoldsResult ==
    gcPc = "done" /\ writes = 1 =>
        /\ {cacheFiles[k].file : k \in DOMAIN cacheFiles}
              = {result[i].file : i \in DOMAIN result}
        /\ \A i \in DOMAIN result :
              /\ \E k \in DOMAIN cacheFiles : cacheFiles[k] = result[i]
              /\ result[i].file[1] = platformName(result[i].platformId)
        /\ \A i, j \in DOMAIN result :
              i # j => result[i].file # result[j].file

(***************************************************************************)
(* C14: a second getReleaseModules() for the same version that is served   *)
(* from the cache returns the same set of (platform, type, index, version) *)
(* as the call that filled the cache, backfilled modules included.         *)
(***************************************************************************)
Identities(ms) ==
    {<<ms[i].platformId, ms[i].type, ms[i].index, ms[i].version>> :
        i \in DOMAIN ms}

C14_RoundTrip ==
    gcPc = "done" /\ cold # <<>> => Identities(result) = Identities(cold)

(***************************************************************************)
(* C15: a module type that is still missing after the backfill only gives  *)
(* a warning: once the release has given modules, getReleaseModules()      *)
(* fails only if a request fails, and else returns the modules found.      *)
(***************************************************************************)
C15_MissingOnlyWarns ==
    /\ gcPc = "failed" /\ mods # <<>> /\ missing # {} =>
          gcError = "RequestError"
    /\ gcPc = "done" /\ mods # <<>> =>
          \A i \in DOMAIN mods :
             \E k \in DOMAIN result : Key(result[k]) = Key(mods[i])

(***************************************************************************)
(* C16: App.init() with a draft asked for and no GITHUB_TOKEN throws the   *)
(* error that a token is required as its first step: no argument has been  *)
(* parsed, no directory created and no network or device call started.     *)
(***************************************************************************)
C16_TokenCheckedFirst ==
    stArgs.draft /\ ~stArgs.token /\ stPc \notin {"idle", "start"} =>
        /\ stPc = "thrown"
        /\ stError = "AuthenticationRequired"
        /\ stDid = <<>>

\* C16 witness: the call failed for the missing token although the version
\* argument is invalid as well.
C16_Witness ==
    /\ stPc = "thrown" /\ stError = "AuthenticationRequired"
    /\ stArgs.draft /\ ~stArgs.token
    /\ stArgs.version = "invalid"

(***************************************************************************)
(* C17: with a DfuDevice as the primary device, every writeToFlash() the   *)
(* Flasher issues, first attempts and retries alike, is for a module that  *)
(* is no bootloader and whose storage has a DFU alt setting on the         *)
(* platform of the device; bootloaders are in the update-request           *)
(* partition.                                                              *)
(***************************************************************************)
HasAltSetting(p, storage) ==
    \/ storage = "internal_flash"
    \/ storage = "external_flash" /\ hasExternalFlash(p)

\* The modules writeToFlash() has been called for: those written, and the
\* one whose write is awaited.
WritesIssued ==
    SeqRange(wroteFlash) \cup
    (IF flPc = "fm_module" /\ ~MustSkip(Head(modules))
     THEN {Head(modules)} ELSE {})

C17_DfuDirectWrites ==
    devKind = "dfu" =>
        /\ \A k \in WritesIssued :
              /\ Mod(k).type # "bootloader"
              /\ HasAltSetting(platform, Mod(k).storage)
        /\ flPc \notin {"idle", "start"} =>
              \A k \in SeqRange(FilterPlatform(inModules)) :
                 Mod(k).type = "bootloader" =>
                    /\ k \in SeqRange(otaModules)
                    /\ k \notin SeqRange(flashModules)

\* C17 witness: a run on a DfuDevice that wrote a module after a failure
\* and retry, with a bootloader and a module for the external MCU in the
\* update-request partition.
C17_Witness ==
    /\ devKind = "dfu" /\ flPc = "done"
    /\ failures >= 1
    /\ wroteFlash # <<>>
    /\ \E k \in SeqRange(otaModules) : Mod(k).type = "bootloader"
    /\ "ncp" \in SeqRange(otaModules)

(***************************************************************************)
(* C18: a module for a slot (type, index) that the platform requires to be *)
(* encrypted and that lacks the encrypted flag is never written to the     *)
(* device, whether it is in the direct or in the update-request partition. *)
(***************************************************************************)
C18_UnencryptedNeverWritten ==
    \A k \in SeqRange(wroteFlash) \cup SeqRange(wroteOta) : ~MustSkip(k)

(***************************************************************************)
(* C19: when the direct phase has ended successfully after at least one    *)
(* direct write, exactly one reset of the device has succeeded, and it     *)
(* came after the last direct write, however many attempts failed: a reset *)
(* is only issued when no module is left to write, and no module is        *)
(* written after a reset.                                                  *)
(***************************************************************************)
DirectPhaseEnded ==
    \/ flPc \in {"um_open", "um_prepare", "um_module", "um_close",
                  "um_catch", "um_exit", "done"}
    \/ flPc = "failed" /\ otaAttempted

C19_OneResetAfterWrites ==
    /\ [](DirectPhaseEnded /\ wroteFlash # <<>> => resetsOk = 1)
    /\ [][resetsOk' # resetsOk =>
            modules = <<>> /\ wroteFlash' = wroteFlash]_vars
    /\ [][wroteFlash' # wroteFlash => resetsOk = 0]_vars

(***************************************************************************)
(* C20: in the update-request phase, after flashModule() has reported      *)
(* resetPending the handle is closed and the device is reopened before     *)
(* the next module is sent, and after the last module has been written     *)
(* the Flasher issues a final reset of the device: the loop is left from   *)
(* that reset.                                                             *)
(***************************************************************************)
ClosedAndReopened ==
    /\ [][wroteOta' # wroteOta => dev /\ flPc' = "um_close"]_vars
    /\ [][flPc = "um_close" => ~dev']_vars
    /\ [][~dev /\ dev' => flPc = "um_open"]_vars

RequestedIds == {tgArgs[i].id : i \in DOMAIN tgArgs} \ {""}

RequestedNames == {tgArgs[i].name : i \in DOMAIN tgArgs} \ {""}

(***************************************************************************)
(* C21: when a requested id is not the id of a local device,               *)
(* _getTargetDevices() fails with "Device not found" without a call of     *)
(* the registry having been started, whatever the other requested entries  *)
(* are.                                                                    *)
(***************************************************************************)
C21_UnknownIdFailsBeforeCloud ==
    tgPc # "start" /\ ~(RequestedIds \subseteq DOMAIN tgLocal)
        => tgPc = "failed" /\ tgError = "DeviceNotFound" /\ tgCloud = 0

\* An id that is not local is requested after a name, which alone would
\* need the registry.
C21_Witness ==
    /\ tgPc = "failed"
    /\ Len(tgArgs) = 2
    /\ tgArgs[1].name # ""
    /\ tgArgs[2].id # "" /\ tgArgs[2].id \notin DOMAIN tgLocal
    /\ tgCloud = 0

\* The ids the registry has for the requested names.
ResolvedIds ==
    {tgUserDevs[i].id :
        i \in {j \in DOMAIN tgUserDevs : tgUserDevs[j].name \in RequestedNames}}

RegistryNames == {tgUserDevs[i].name : i \in DOMAIN tgUserDevs}

\* The local devices the call is about.
Selected ==
    IF tgArgs = <<>>
    THEN DOMAIN tgLocal
    ELSE DOMAIN tgLocal \cap (RequestedIds \cup ResolvedIds)

Ended == ls.pc \in {"returned", "failed"}

(***************************************************************************)
(* C23: _listLocalDevices() fails with "No devices found" when no device   *)
(* survives: when listDevices() returns no device, and when every listed   *)
(* device failed to open after all its retries. A device whose open()      *)
(* failed after all its retries does not make the call fail with another   *)
(* error: unless a close() threw, the call only fails once every job has   *)
(* ended with `devs` empty, and then with "No devices found".              *)
(***************************************************************************)
C23_FailsOnlyWithNoDevicesFound ==
    /\ ls.pc # "start" /\ lsCount = 0 =>
          ls.pc = "failed" /\ ls.error = "NoDevicesFound"
    /\ ls.pc = "failed" /\ ls.error # "CloseFailed" =>
          /\ ls.error = "NoDevicesFound"
          /\ ls.devs = <<>>
          /\ JobsAt(ls, {"resolved", "rejected"}) = DOMAIN ls.jobs

(***************************************************************************)
(* C24: every device is opened at most maxRetries + 1 times, a job that    *)
(* is not running has called close() after each of its attempts, and when  *)
(* _listLocalDevices() has returned or thrown no device holds a handle,    *)
(* except one whose close() threw.                                         *)
(***************************************************************************)
C24_NoHandleLeftOpen ==
    /\ \A i \in DOMAIN ls.jobs :
          /\ ls.opens[i] <= lsMaxRetries + 1
          /\ ls.jobs[i].pc \in {"resolved", "rejected"} =>
                ls.closes[i] >= ls.opens[i] /\ ls.closes[i] >= 1
    /\ Ended => \A i \in ls.open : ls.jobs[i].then = "close_threw"
(***************************************************************************)
(* Claims about Platform.storageForFirmwareModule                          *)
(***************************************************************************)
OfType == SelectSeq(fwModules, LAMBDA x : x.type = sfType)

WithIndex == SelectSeq(OfType, LAMBDA x : x.index = sfIndex)

(***************************************************************************)
(* C25: storageForFirmwareModule(type, index) returns the storage of the   *)
(* only descriptor of the type when that descriptor has no index,          *)
(* whatever index is requested; the storage of the descriptor whose index  *)
(* is the requested one when the descriptors of the type have indices;     *)
(* and null when no descriptor has the type or none has the requested      *)
(* index, also when the only descriptor of the type has another index.     *)
(***************************************************************************)
C25_StorageForFirmwareModule ==
    sfPc = "done" =>
        /\ Len(OfType) = 0 => sfResult = Null
        /\ Len(OfType) = 1 /\ OfType[1].index = NoIndex =>
              sfResult = StorageOf(OfType[1])
        /\ /\ Len(OfType) >= 1
           /\ sfIndex # NoIndex
           /\ \A i \in DOMAIN OfType : OfType[i].index # NoIndex
           =>
              sfResult = IF WithIndex = <<>>
                         THEN Null
                         ELSE StorageOf(WithIndex[1])
(***************************************************************************)
(* Claims about TelnetClient                                               *)
(***************************************************************************)

(***************************************************************************)
(* C26: the client is CONNECTED only if the test of _negotiateOptions()    *)
(* found SUPPRESS-GO-AHEAD enabled on the client half and on the server    *)
(* half; when the negotiation ended with either half not enabled,          *)
(* connect() fails and the client is disconnecting or disconnected.        *)
(***************************************************************************)
C26_SuppressGoAheadRequired ==
    /\ tn.state = "connected" => tn.checked = "enabled"
    /\ tn.checked = "refused" =>
          /\ tn.pc \in {"failing", "thrown"}
          /\ tn.state \in {"disconnecting", "disconnected"}

(***************************************************************************)
(* C27: a call of disconnect() changes nothing when the client is          *)
(* DISCONNECTED; it only joins the disconnect in progress when the client  *)
(* is DISCONNECTING, and the joined calls end with the DISCONNECTED event; *)
(* and when connect() waits for the option negotiation or for a prompt,    *)
(* the call makes connect() throw "Disconnect requested".                  *)
(***************************************************************************)
C27_DisconnectIdempotent ==
    /\ [][tn'.calls # tn.calls =>
            /\ tn.state = "disconnected" =>
                  tn' = [tn EXCEPT !.calls = @ + 1]
            /\ tn.state = "disconnecting" =>
                  tn' = [tn EXCEPT !.calls = @ + 1, !.joiners = @ + 1]
            /\ tn.pc \in {"negotiating", "login", "password", "shell"} =>
                  tn'.pc = "thrown" /\ tn'.err = "DisconnectRequested"]_vars
    /\ [][tn.joiners > 0 /\ tn'.joiners = 0 =>
            tn'.state = "disconnected"]_vars

\* connect() was interrupted at a prompt by disconnect().
C27_Witness ==
    /\ tn.err = "DisconnectRequested"
    /\ tn.optionsNegotiated
    /\ tn.state = "disconnecting"

IsPrefixOf(s, t) == Len(s) <= Len(t) /\ \A i \in DOMAIN s : s[i] = t[i]

(***************************************************************************)
(* C28: connect() answers the login prompt, then the password prompt, and  *)
(* is not left waiting for a prompt once the shell prompt has been         *)
(* received: a server that sends only the shell prompt is connected        *)
(* without a login or a password prompt.                                   *)
(***************************************************************************)
C28_PromptsInOrder ==
    /\ IsPrefixOf(tn.sent, <<"user", "password">>)
    /\ tn.shellPromptReceived => tn.pc \notin {"login", "password", "shell"}
\* C29: stopping a daemon whose process is running (_procRunning): when the
\* control connection is established and no command is in flight the driver
\* sends 'shutdown' and closes the connection without killing the process;
\* in every other case, and when the send or the close fails, it kills the
\* process; and stop() leaves its wait for the exit, on its way to STOPPED,
\* only when the exit of the process has been observed.
StopProcessBegins == ocd.stopPc = "none" /\ ocd'.stopPc \in {"shutdown", "exitwait"}
ProcessKilled == ~ocd.procKilled /\ ocd'.procKilled
ServedFromCache == gcPc = "done" /\ requests = 0

C30_CommitAtomic ==
    ServedFromCache /\ torn # <<>> =>
        ~(/\ Identities(result) \subseteq Identities(torn)
          /\ Identities(result) # Identities(torn))

(***************************************************************************)
(* Claims about the older releases                                         *)
(***************************************************************************)
StillMissing(miss) ==
    \E pt \in miss : pt[2] \in {"bootloader", "user_part"}

\* What C31 says apart from the order of the probes: only versions below
\* the one asked for are probed, at most 20 of them, a release is probed
\* only while a bootloader or user part is missing, and the releases are
\* listed only if one is missing once radio stack and NCP firmware have
\* been taken off.
ProbesBounded ==
    /\ [](/\ \A i \in DOMAIN olProbed : olProbed[i].rank < olVersion.rank
          /\ Len(olProbed) <= MAX_OLDER_RELEASES_TO_CHECK
          /\ olProbed # <<>> => olLists > 0)
    /\ [][/\ olProbed' # olProbed => StillMissing(olMissing')
          /\ olLists' # olLists => StillMissing(olMissing')]_vars

\* C31 as stated: the older releases are probed in strictly descending
\* order of version, and only versions strictly below the one asked for,
\* at most 20 of them, only while a bootloader or user part is missing,
\* and not at all when only radio stack or NCP firmware is missing.
C31_ProbesStrictlyDescending ==
    /\ ProbesBounded
    /\ [](\A i, j \in DOMAIN olProbed :
            i < j => olProbed[j].rank < olProbed[i].rank)

\* C31 amended: the probes are in descending order of version, and no
\* version string is probed twice; two tags that differ only in their
\* build metadata are both probed, one after the other.
C31_ProbesDescending ==
    /\ ProbesBounded
    /\ [](\A i, j \in DOMAIN olProbed :
            i < j => /\ olProbed[j].rank <= olProbed[i].rank
                     /\ olProbed[j] # olProbed[i])

\* C31 witness: more than 20 older releases were listed, a module stayed
\* missing, and the loop ended after the 20 newest of them.
C31_Witness ==
    /\ olPc = "done"
    /\ Len(olProbed) = MAX_OLDER_RELEASES_TO_CHECK
    /\ Cardinality({k \in DOMAIN olSeen : olSeen[k].rank < olVersion.rank})
          > MAX_OLDER_RELEASES_TO_CHECK
    /\ olMissing # {}

(***************************************************************************)
(* C32: the negotiation of options is free of loops.  The client writes    *)
(* nothing when the command received confirms the state the option is in   *)
(* (WILL or DO in YES, WONT or DONT in NO) or answers a request of the     *)
(* client that is pending (WANT_YES, WANT_NO); an option is YES only if    *)
(* the peer's last word on it was WILL (server options) or DO (client      *)
(* options); and a request to enable an option the client does not know is *)
(* refused, WILL by DONT and DO by WONT, with no change of state.          *)
(***************************************************************************)
Confirms(current, c) ==
    \/ current = "yes" /\ c.cmd \in {"WILL", "DO"}
    \/ current = "no" /\ c.cmd \in {"WONT", "DONT"}

C32_NegotiationLoopFree ==
    /\ [](\A o \in Options : ng.current[o] = "yes" => ngLast[o] = "agreed")
    /\ [][ngCmd' # NoCommand =>
            LET c == ngCmd'
            IN  IF Supported(c)
                THEN LET current == ng.current[OptionOf(c)]
                     IN  /\ Confirms(current, c) =>
                               ngSent' = <<>> /\ ng' = ng
                         /\ current \in {"want_yes", "want_no"} =>
                               ngSent' = <<>>
                         /\ Len(ngSent') <= 1
                ELSE /\ ng' = ng
                     /\ ngSent' =
                          CASE c.cmd = "WILL" ->
                                 <<[cmd |-> "DONT", opt |-> c.opt]>>
                            [] c.cmd = "DO" ->
                                 <<[cmd |-> "WONT", opt |-> c.opt]>>
                            [] OTHER -> <<>>]_vars

\* C32 witness: the server has agreed to SUPPRESS-GO-AHEAD for both sides
\* and has just repeated its WILL, to which the client wrote nothing.
C32_Witness ==
    /\ ng.current["serverSuppressGoAhead"] = "yes"
    /\ ng.current["clientSuppressGoAhead"] = "yes"
    /\ ngLast["clientSuppressGoAhead"] = "agreed"
    /\ ngCmd = [cmd |-> "WILL", opt |-> "SGA"]
    /\ ngSent = <<>>

(***************************************************************************)
(* C33: the binary _parseModuleBinaries() keeps for a key does not depend  *)
(* on the order in which the files are met: when no two binaries with one  *)
(* key agree in being named Tinker, in version and in file size, every     *)
(* order of the same files gives the same binaries.                        *)
(***************************************************************************)
Orders(n) ==
    {f \in [1..n -> 1..n] : \A i, j \in 1..n : i # j => f[i] # f[j]}

Reordered(files, f) == [i \in DOMAIN files |-> files[f[i]]]

Kept(files) ==
    LET ms == ParseModuleBinaries(files) IN {ms[k] : k \in DOMAIN ms}

\* Two binaries tie, with being Tinker taken as the operator says.
Tie(a, b, Tinker(_)) ==
    /\ Key(a) = Key(b)
    /\ Tinker(a) = Tinker(b)
    /\ a.version = b.version
    /\ a.fileSize = b.fileSize

NoTie(files, Tinker(_)) ==
    \A i, j \in DOMAIN files :
        i # j /\ files[i].valid /\ files[j].valid =>
            ~Tie(files[i], files[j], Tinker)

C33_OrderIndependent ==
    pIdx > Len(pFiles) /\ NoTie(pFiles, NamedTinker) =>
        \A f \in Orders(Len(pFiles)) :
            Kept(Reordered(pFiles, f)) = {pModules[k] : k \in DOMAIN pModules}

(***************************************************************************)
(* Claims about the termination of Flasher.run                             *)
(***************************************************************************)
RunSettled == flPc \in {"done", "failed"}

\* C34: Flasher.run always terminates provided every device operation
\* returns or throws, whatever the failures are.
C34_RunTerminates == <>RunSettled

\* With a budget of retries that is not negative run() does terminate.
RunTerminatesWithBudget == (maxRetries >= 0) => <>RunSettled

(***************************************************************************)
(* Claims about the device handles of the Flasher                          *)
(***************************************************************************)
\* C35: when run() has returned or thrown and no close() has failed,
\* neither the primary device nor the USB device of the update requests is
\* left open; and open() is never called on a primary device that is open.
C35_NoHandleLeftOpen ==
    ~closeThrew =>
        /\ RunSettled => ~hOpen /\ ~dev
        /\ flPc = "fm_open" => ~hOpen

\* C35 witness: run() threw after failures in both phases, with both
\* devices having been open, and no close() failed.
C35_Witness ==
    /\ flPc = "failed" /\ ~closeThrew
    /\ wroteFlash # <<>> /\ otaAttempted
    /\ failures > 2

(***************************************************************************)
(* Claims about start() and stop() of the OpenOCD driver                   *)
(***************************************************************************)
\* The stop() of the caller has returned.
StopSettled(d) ==
    "env" \in d.stopRet /\ d.stopper # "env" /\ "env" \notin d.stopWait

\* C36: a start() during which stop() was called never sets the driver
\* RUNNING and does not resolve; once that start() and the stop() have
\* settled the driver is STOPPED and the child process of that start() has
\* exited.
C36_StopDuringStartFailsStart ==
    ocd.stopInStart =>
        /\ ocd.startPc # "ok"
        /\ StartInProgress(ocd) => ocd.state # "running"
        /\ ocd.startPc = "failed" /\ StopSettled(ocd) =>
              ocd.state = "stopped" /\ ~ocd.procAlive

\* A call of start() got past the guard: a child process is spawned.
StartAccepted == ocd.startPc # "proc" /\ ocd'.startPc = "proc"

\* C37: start() is accepted only in state STOPPED; and when start() rejects
\* the driver is STOPPED, no daemon process is running and there is no
\* telnet connection.
C37_FailedStartLeavesStopped ==
    /\ [][StartAccepted => ocd.state = "stopped"]_vars
    /\ [](ocd.startPc = "failed" =>
            /\ ocd.state = "stopped"
            /\ ~ocd.procAlive /\ ~ocd.procRunning
            /\ ~ocd.telnetUp /\ ~ocd.telnetConnected)

(***************************************************************************)
(* Claims about TelnetClient.disconnect()                                  *)
(***************************************************************************)
\* The client is DISCONNECTED and a connect() would find a fresh state.
FreshState(t) ==
    /\ t.state = "disconnected"
    /\ ~t.failed /\ ~t.optionsNegotiated
    /\ t.recvBuf = <<>>
    /\ \A o \in Options : t.current[o] = "no" /\ t.desired[o] = "no"
    /\ ~t.loginPromptReceived /\ ~t.passwordPromptReceived
    /\ ~t.shellPromptReceived

\* C38: when the promise of disconnect() is resolved the client is
\* DISCONNECTED with its connection state reset: for the call that did the
\* disconnect, which has returned once it has called setImmediate(), and
\* for the calls that joined it.
C38_DisconnectResolvesDisconnected ==
    /\ [](tn.disc = "immediate" => FreshState(tn))
    /\ [][tn.joiners > 0 /\ tn'.joiners = 0 => FreshState(tn')]_vars

(***************************************************************************)
(* Claims about the registry calls of _getTargetDevices()                  *)
(***************************************************************************)
\* A requested id is not among the local devices: the call fails at once.
MissingId == RequestedIds \ DOMAIN tgLocal # {}

\* The device reported its platform or an argument gives a hint for it.
PlatformKnown(id) ==
    \/ tgLocal[id] # Unknown
    \/ \E i \in DOMAIN tgArgs :
          tgArgs[i].id = id /\ tgArgs[i].platformId # Unknown

\* The local devices the arguments select when they are all ids: the
\* requested ones, or every device when nothing is requested.
SelectedById == IF tgArgs = <<>> THEN DOMAIN tgLocal ELSE RequestedIds

\* C39: no registry call when every requested target is given by id and
\* every requested target has a known platform, whatever the platforms of
\* the local devices that are not selected; one registry call otherwise.
C39_CloudOnlyForRequested ==
    tgPc # "start" /\ ~MissingId =>
        tgCloud = IF /\ RequestedNames = {}
                     /\ \A id \in SelectedById : PlatformKnown(id)
                  THEN 0 ELSE 1

\* C39 as the code has it: no registry call when a requested id is not
\* local; otherwise one call when a target is requested by name or when any
\* local device, selected or not, has no platform after the hints, and no
\* call when neither is the case.
C39_CloudForNamesAndUnknown ==
    tgPc # "start" =>
        tgCloud = IF \/ MissingId
                     \/ /\ RequestedNames = {}
                        /\ \A id \in DOMAIN tgLocal : PlatformKnown(id)
                  THEN 0 ELSE 1

\* C39 witness: the only requested target is given by id and has a
\* platform, another local device has none, and the registry was asked.
C39_Witness ==
    /\ tgPc = "done" /\ tgCloud = 1
    /\ RequestedNames = {} /\ RequestedIds # {}
    /\ \A id \in RequestedIds : tgLocal[id] # Unknown
    /\ \E id \in DOMAIN tgLocal \ RequestedIds : tgLocal[id] = Unknown

(***************************************************************************)
(* Claims about the bytes TelnetClient receives                            *)
(***************************************************************************)
\* The commands with an option in a sequence of bytes read from its start;
\* a command cut short by the end of the sequence is not in it yet.
RECURSIVE CommandsOf(_)
CommandsOf(bytes) ==
    IF bytes = <<>> THEN <<>>
    ELSE IF bytes[1] # "IAC" THEN CommandsOf(Tail(bytes))
    ELSE IF Len(bytes) < 2 THEN <<>>
    ELSE IF ~TakesOption(bytes[2])
    THEN CommandsOf(SubSeq(bytes, 3, Len(bytes)))
    ELSE IF Len(bytes) < 3 THEN <<>>
    ELSE <<(<<bytes[2], bytes[3]>>)>>
            \o CommandsOf(SubSeq(bytes, 4, Len(bytes)))

Delivered == SubSeq(rxStream, 1, rxSent)

\* The commands of the bytes delivered so far have each been applied once,
\* in their order, and no reported line holds a byte of a command.
CommandsOnce ==
    /\ rxApplied = CommandsOf(Delivered)
    /\ \A i \in DOMAIN rxReports :
          \A j \in DOMAIN rxReports[i].text : rxReports[i].text[j] # "IAC"

\* No complete line of the text has been reported twice.
LinesOnce ==
    \A i, j \in DOMAIN rxReports :
        /\ i # j
        /\ rxReports[i].complete /\ rxReports[j].complete
        => rxReports[i].n # rxReports[j].n

\* C40: however the byte stream is cut into 'data' events, every command
\* is applied to the option state machine exactly once and is not part of
\* the text, and no line of the text is reported again when later data
\* arrives.
C40_EachItemHandledOnce == CommandsOnce /\ LinesOnce

====
